---- MODULE Spec2Model ----
(***************************************************************************)
(* The reservoir of alto (src/alto/engine.py): streaming ingest of a tap's *)
(* output into gzip batches on an object store (tap_to_reservoir,          *)
(* reservoir_ingestor), emission of the batches to a target                *)
(* (reservoir_to_target, reservoir_emitter) and offline compaction         *)
(* (compact_reservoir), with the JSON index `_reservoir.json` and the lock *)
(* object `_reservoir.lock`.                                               *)
(*                                                                         *)
(* Conventions.  A path reservoir/<env>/<tap>/<stream>/<schema_id>/<ts>    *)
(* .singer.gz is the record [stream, schema, ts]; the timestamp is a fixed *)
(* width digit string, so string order on file names is the order of the   *)
(* numbers ts, and the empty bookmark "" is 0.  A line of tap output is a  *)
(* record [type, stream, schema, rec, value].  A gzip object is the        *)
(* sequence of its lines together with its size in bytes.                  *)
(***************************************************************************)
EXTENDS Integers, Sequences, FiniteSets, TLC

\* ------------------------------------------------------------------ bounds
NumStreams == 2
NumSchemas == 2
MaxLines == 3
MaxRuns == 2
MaxConcRuns == 2
MaxConcLines == 2
MaxSeqRuns == 4
MaxFiles == 3
MaxFailAt == 2
MaxBufferSize == 2
MaxExitCode == 1
MaxStateLines == 1
MaxTapLines == 3
PipeCapacity == 1
MaxApplications == 2
MaxSelections == 2
MaxDepth == 2
MaxIngestLines == 4
MaxIngestRuns == 1
RecursionLimit == 5
MaxOverrides == 2
MaxProductions == 2
MaxPayloads == 2

Procs == {"p1", "p2"}
SeqProcs == {"p1"}
Streams == 1..NumStreams
Schemas == 1..NumSchemas
BufferSizes == 1..MaxBufferSize

\* --------------------------------------------------------------- constants
CompactThreshold == 25000000
MiB == 1024 * 1024
NoLock == ""
CompactionMark == "compaction in progress"
NoVer == -1

\* the sizes in bytes a flushed gzip batch may have
BatchSizes == {5 * MiB, 30 * MiB}

VARIABLES
  lock,           \* content of _reservoir.lock, NoLock when the object is absent
  index,          \* _reservoir.json: [exists, ver, keys, paths]
  files,          \* the .singer.gz objects: path -> [lines, size]
  tap_state,      \* the state file of the tap -> reservoir pipeline
  emit_state,     \* the state file of the reservoir -> target pipeline
  target_stdin,   \* every line written to the stdin of a target, in order
  clock,          \* utcnow()
  pc,             \* position of each process
  raised,         \* the exception each process is unwinding with, "" for none
  pending,        \* PUTs submitted to the worker pool and not yet completed
  reservoir,      \* the index each process holds in memory
  buffer_size,    \* reservoir_ingestor: buffer_size
  record_buffer,  \* reservoir_ingestor: stream -> set of containers
  active_schemas, \* reservoir_ingestor: stream -> schema_id, 0 when absent
  message,        \* reservoir_ingestor: the last message parsed
  stream_states,  \* reservoir_ingestor: stream_states
  nread,          \* lines read from the tap in this run
  changed,        \* compact_reservoir: changed
  emitter_states, \* reservoir_to_target: stream_states, [ver, known, emitted]
  todo,           \* reservoir_to_target: streams of the index not yet visited
  work,           \* reservoir_to_target: the partitions of the current stream
  job,            \* reservoir_to_target: paths of the current partition not yet fetched
  fetched,        \* reservoir_emitter: the workers that hold a batch and wait for the lock
  writing,        \* reservoir_emitter: the workers inside `with lock`, [path, lines, n]
  tapped,         \* history: the RECORD lines and invalid lines the taps printed
  hist,           \* history: the runs that ended, [proc, kind, ok, err]
  nruns,          \* history: runs started
  held,           \* history: the processes that wrote the lock and have not deleted it
  cmp,            \* history: [files, index, caught] of the last compactor run
  task_status,    \* doit: task -> "wait", "run", "done" (ran or up to date), "fail"
  started,        \* doit: the tasks whose actions have started
  pl,             \* the pipeline task: its position, local files, exit codes, error
  remote,         \* the remote store: the state object, its dated copies, the logs
  fn              \* a call of a library function: [op, args.., out], op "" for none

shared == <<lock, index, files, tap_state, emit_state, target_stdin, clock>>
ingestv == <<buffer_size, record_buffer, active_schemas, message, stream_states, nread>>
emitv == <<emitter_states, todo, work, job, fetched, writing>>
locals == <<reservoir, changed, ingestv, emitv>>
histv == <<tapped, hist, nruns, held, cmp>>
reservoirv == <<shared, pc, raised, pending, locals, histv, fn>>
taskv == <<task_status, started, pl, remote, fn>>
statev == <<shared, pc, raised, pending, locals, histv, task_status, started, pl, remote>>
vars == <<reservoirv, taskv>>

\* ------------------------------------------------------------------- data
Path(s, k, t) == [stream |-> s, schema |-> k, ts |-> t]
Msg(ty, s, k, r, v) == [type |-> ty, stream |-> s, schema |-> k, rec |-> r, value |-> v]
NoMsg == Msg("NONE", 0, 0, 0, 0)
SchemaMsg(s, k) == Msg("SCHEMA", s, k, 0, 0)
RecordMsg(s, r) == Msg("RECORD", s, 0, r, 0)
StateMsg(v) == Msg("STATE", 0, 0, 0, v)
InvalidLine == Msg("INVALID", 0, 0, 0, 0)

EmptyIndex == [exists |-> FALSE, ver |-> NoVer, keys |-> {}, paths |-> [s \in Streams |-> <<>>]]
EmptyState == [ver |-> NoVer, known |-> {}, emitted |-> [s \in Streams |-> 0]]
NoFiles == [p \in {} |-> 0]

Range(seq) == {seq[i] : i \in 1..Len(seq)}

\* reservoir.get(RESERVOIR_VERSION_KEY, 0)
VersionOf(idx) == IF idx.ver = NoVer THEN 0 ELSE idx.ver

\* fs.pipe(path, content)
Pipe(fs, path, content) ==
  [q \in DOMAIN fs \cup {path} |-> IF q = path THEN content ELSE fs[q]]

\* fs.rm(paths)
Rm(fs, paths) == [q \in DOMAIN fs \ paths |-> fs[q]]

\* sorted(...) on paths of one stream: by schema_id, then by file name
PathLess(a, b) == a.schema < b.schema \/ (a.schema = b.schema /\ a.ts < b.ts)

RECURSIVE SortPaths(_)
SortPaths(S) ==
  IF S = {} THEN <<>>
  ELSE LET m == CHOOSE x \in S : \A y \in S \ {x} : PathLess(x, y)
       IN <<m>> \o SortPaths(S \ {m})

\* fs.glob("<base>/<stream>/**.singer.gz"), sorted
GlobSorted(fs, s) == SortPaths({q \in DOMAIN fs : q.stream = s})

RecordsOf(lines) == SelectSeq(lines, LAMBDA l : l.type = "RECORD")

Count(seq, x) == Cardinality({i \in 1..Len(seq) : seq[i] = x})

\* ------------------------------------------------------------ bookkeeping
InMemory(idx) == [idx EXCEPT !.exists = TRUE]

Goto(p, at) == pc' = [pc EXCEPT ![p] = at]

Begin(p, at) ==
  /\ pc[p] = "idle"
  /\ Goto(p, at)
  /\ nruns' = nruns + 1

\* the function returns or raises: its local variables are gone
ResetLocals(p) ==
  /\ reservoir' = [reservoir EXCEPT ![p] = InMemory(EmptyIndex)]
  /\ changed' = [changed EXCEPT ![p] = FALSE]
  /\ buffer_size' = [buffer_size EXCEPT ![p] = 0]
  /\ record_buffer' = [record_buffer EXCEPT ![p] = [s \in Streams |-> {}]]
  /\ active_schemas' = [active_schemas EXCEPT ![p] = [s \in Streams |-> 0]]
  /\ message' = [message EXCEPT ![p] = NoMsg]
  /\ stream_states' = [stream_states EXCEPT ![p] = 0]
  /\ nread' = [nread EXCEPT ![p] = 0]
  /\ emitter_states' = [emitter_states EXCEPT ![p] = EmptyState]
  /\ todo' = [todo EXCEPT ![p] = {}]
  /\ work' = [work EXCEPT ![p] = <<>>]
  /\ job' = [job EXCEPT ![p] = {}]
  /\ fetched' = [fetched EXCEPT ![p] = {}]
  /\ writing' = [writing EXCEPT ![p] = {}]

\* the run of p ends, normally (err = "") or with the exception err
End(p, kind, err) ==
  /\ Goto(p, "idle")
  /\ hist' = Append(hist, [proc |-> p, kind |-> kind, ok |-> (err = ""), err |-> err])
  /\ raised' = [raised EXCEPT ![p] = ""]
  /\ ResetLocals(p)

\* ---------------------------------------------------- tap_to_reservoir
\* set up: load the last state and the index
StartIngest(p, bs) ==
  /\ UNCHANGED taskv
  /\ Begin(p, "ing_check")
  /\ stream_states' = [stream_states EXCEPT ![p] = tap_state]
  /\ reservoir' = [reservoir EXCEPT ![p] = IF index.exists THEN index ELSE InMemory(EmptyIndex)]
  /\ buffer_size' = [buffer_size EXCEPT ![p] = bs]
  /\ UNCHANGED <<shared, raised, pending, changed, record_buffer, active_schemas, message, nread,
                 emitv, tapped, hist, held, cmp>>

\* the lock check as it would be inside the try block: the lock error passes through
\* the cleanup
IngestLockCheckInTry(p) ==
  /\ UNCHANGED taskv
  /\ pc[p] = "ing_check"
  /\ IF lock # NoLock
       THEN Goto(p, "ing_finally") /\ raised' = [raised EXCEPT ![p] = "locked"]
       ELSE Goto(p, "ing_lock") /\ UNCHANGED raised
  /\ UNCHANGED <<shared, pending, locals, histv>>

\* if filesystem.fs.exists(lock_path): raise RuntimeError
IngestLockCheck(p) ==
  /\ UNCHANGED taskv
  /\ pc[p] = "ing_check"
  /\ IF lock # NoLock
       THEN End(p, "ingest", "locked")
       ELSE Goto(p, "ing_lock") /\ UNCHANGED <<hist, raised, locals>>
  /\ UNCHANGED <<shared, pending, tapped, nruns, held, cmp>>

\* filesystem.fs.pipe(lock_path, pipeline_id)
IngestAcquire(p) ==
  /\ UNCHANGED taskv
  /\ pc[p] = "ing_lock"
  /\ lock' = p
  /\ held' = held \cup {p}
  /\ Goto(p, "ing_popen")
  /\ UNCHANGED <<index, files, tap_state, emit_state, target_stdin, clock, raised, pending,
                 locals, tapped, hist, nruns, cmp>>

\* subprocess.Popen(cmd, ...): the tap starts, or Popen raises
IngestPopen(p, ok) ==
  /\ UNCHANGED taskv
  /\ pc[p] = "ing_popen"
  /\ IF ok
       THEN Goto(p, "ing_loop") /\ UNCHANGED raised
       ELSE Goto(p, "ing_finally") /\ raised' = [raised EXCEPT ![p] = "OSError"]
  /\ UNCHANGED <<shared, pending, locals, histv>>

Container(k, hdr) == [schema_id |-> k, count |-> 0, header |-> hdr, records |-> <<hdr>>]

HasSchema(buf, k) == \E c \in buf : c.schema_id = k
ContainerOf(buf, k) == CHOOSE c \in buf : c.schema_id = k

\* reservoir[stream].append(path)
IndexAppend(idx, path) ==
  [idx EXCEPT !.keys = @ \cup {path.stream}, !.paths[path.stream] = Append(@, path)]

\* an exception leaves the loop for the finally block of tap_to_reservoir
IngestRaise(p, err) ==
  /\ Goto(p, "ing_finally")
  /\ raised' = [raised EXCEPT ![p] = err]
  /\ UNCHANGED <<shared, pending, reservoir, stream_states, record_buffer, active_schemas>>

\* if message["type"] == "STATE"
HandleState(p, msg) ==
  /\ stream_states' = [stream_states EXCEPT ![p] = msg.value]
  /\ tap_state' = msg.value
  /\ UNCHANGED <<pc, raised, lock, index, files, emit_state, target_stdin, clock, pending,
                 reservoir, record_buffer, active_schemas>>

\* if message["type"] == "SCHEMA"
HandleSchema(p, msg, line) ==
  /\ record_buffer' =
       IF HasSchema(record_buffer[p][msg.stream], msg.schema) THEN record_buffer
       ELSE [record_buffer EXCEPT ![p][msg.stream] = {Container(msg.schema, line)}]
  /\ active_schemas' = [active_schemas EXCEPT ![p][msg.stream] = msg.schema]
  /\ UNCHANGED <<pc, raised, shared, pending, reservoir, stream_states>>

\* elif message["type"] == "RECORD", with the flush of a full buffer
HandleRecord(p, msg, line) ==
  LET s == msg.stream
      buf == record_buffer[p][s]
      c == ContainerOf(buf, active_schemas[p][s])
      full == [c EXCEPT !.count = @ + 1, !.records = Append(@, line)]
      path == Path(s, active_schemas[p][s], clock)
      reset == [full EXCEPT !.count = 0, !.records = <<c.header>>]
  IN IF full.count >= buffer_size[p]
       THEN /\ pending' = [pending EXCEPT ![p] = @ \cup {[path |-> path, lines |-> full.records]}]
            /\ clock' = clock + 1
            /\ record_buffer' = [record_buffer EXCEPT ![p][s] = (buf \ {c}) \cup {reset}]
            /\ reservoir' = [reservoir EXCEPT ![p] = IndexAppend(@, path)]
            /\ tap_state' = stream_states[p]
            /\ UNCHANGED <<pc, raised, lock, index, files, emit_state, target_stdin,
                           stream_states, active_schemas>>
       ELSE /\ record_buffer' = [record_buffer EXCEPT ![p][s] = (buf \ {c}) \cup {full}]
            /\ UNCHANGED <<pc, raised, shared, pending, reservoir, stream_states,
                           active_schemas>>

\* one iteration of `for line in stdout` in reservoir_ingestor; a line that is not
\* JSON leaves `message` as the previous iteration bound it
IngestLine(p, line) ==
  /\ UNCHANGED taskv
  /\ pc[p] = "ing_loop"
  /\ nread' = [nread EXCEPT ![p] = @ + 1]
  /\ tapped' = IF line.type \in {"RECORD", "INVALID"} THEN tapped \cup {line} ELSE tapped
  /\ LET msg == IF line.type = "INVALID" THEN message[p] ELSE line
     IN /\ message' = [message EXCEPT ![p] = msg]
        /\ CASE msg = NoMsg -> IngestRaise(p, "NameError")
             [] msg.type = "STATE" -> HandleState(p, msg)
             [] msg.type = "SCHEMA" -> HandleSchema(p, msg, line)
             [] msg.type = "RECORD"
                  /\ ~HasSchema(record_buffer[p][msg.stream], active_schemas[p][msg.stream]) ->
                  IngestRaise(p, "KeyError")
             [] msg.type = "RECORD"
                  /\ HasSchema(record_buffer[p][msg.stream], active_schemas[p][msg.stream]) ->
                  HandleRecord(p, msg, line)
  /\ UNCHANGED <<changed, buffer_size, emitv, hist, nruns, held, cmp>>

\* the containers flushed at tap EOF, in the order they are visited
RECURSIVE EofFlushes(_, _, _)
EofFlushes(rb, act, S) ==
  IF S = {} THEN <<>>
  ELSE LET s == CHOOSE x \in S : \A y \in S : x <= y
           cs == {c \in rb[s] : c.count # 0}
       IN (IF cs = {} THEN <<>>
           ELSE <<[stream |-> s, schema |-> act[s], lines |-> (CHOOSE c \in cs : TRUE).records]>>)
          \o EofFlushes(rb, act, S \ {s})

RECURSIVE AppendAll(_, _, _)
AppendAll(idx, fl, t) ==
  IF fl = <<>> THEN idx
  ELSE AppendAll(IndexAppend(idx, Path(fl[1].stream, fl[1].schema, t)), Tail(fl), t + 1)

\* tap EOF: flush the remaining records
IngestEOF(p) ==
  /\ UNCHANGED taskv
  /\ pc[p] = "ing_loop"
  /\ LET fl == EofFlushes(record_buffer[p], active_schemas[p], Streams)
     IN /\ pending' = [pending EXCEPT ![p] = @ \cup
                         {[path |-> Path(fl[i].stream, fl[i].schema, clock + i - 1),
                           lines |-> fl[i].lines] : i \in 1..Len(fl)}]
        /\ reservoir' = [reservoir EXCEPT ![p] = AppendAll(@, fl, clock)]
        /\ clock' = clock + Len(fl)
  /\ Goto(p, "ing_shutdown")
  /\ UNCHANGED <<lock, index, files, tap_state, emit_state, target_stdin, raised, changed,
                 ingestv, emitv, histv>>

\* tpe.shutdown() returns once every PUT has completed; write the final state
IngestShutdown(p) ==
  /\ UNCHANGED taskv
  /\ pc[p] = "ing_shutdown"
  /\ pending[p] = {}
  /\ tap_state' = stream_states[p]
  /\ Goto(p, "ing_finally")
  /\ UNCHANGED <<lock, index, files, emit_state, target_stdin, clock, raised, pending, locals,
                 histv>>

\* finally: filesystem.fs.pipe(index_path, json.dumps(reservoir))
IngestFinallyIndex(p) ==
  /\ UNCHANGED taskv
  /\ pc[p] = "ing_finally"
  /\ index' = reservoir[p]
  /\ Goto(p, "ing_unlock")
  /\ UNCHANGED <<lock, files, tap_state, emit_state, target_stdin, clock, raised, pending,
                 locals, histv>>

\* the deletion of the lock as it would be after a run that did not raise only
IngestUnlockOnSuccess(p) ==
  /\ UNCHANGED taskv
  /\ pc[p] = "ing_unlock"
  /\ IF raised[p] = ""
       THEN lock' = NoLock /\ held' = held \ {p}
       ELSE UNCHANGED <<lock, held>>
  /\ End(p, "ingest", raised[p])
  /\ UNCHANGED <<index, files, tap_state, emit_state, target_stdin, clock, pending, tapped,
                 nruns, cmp>>

\* finally: filesystem.fs.delete(lock_path)
IngestUnlock(p) ==
  /\ UNCHANGED taskv
  /\ pc[p] = "ing_unlock"
  /\ lock' = NoLock
  /\ held' = held \ {p}
  /\ End(p, "ingest", raised[p])
  /\ UNCHANGED <<index, files, tap_state, emit_state, target_stdin, clock, pending, tapped,
                 nruns, cmp>>

\* a worker of the pool runs filesystem.fs.pipe(path, bytes): the object lands with
\* the size of its gzip bytes, or the PUT fails and its exception is never read
PutComplete(p, put, ok, sz) ==
  /\ UNCHANGED taskv
  /\ put \in pending[p]
  /\ pending' = [pending EXCEPT ![p] = @ \ {put}]
  /\ files' = IF ok THEN Pipe(files, put.path, [lines |-> put.lines, size |-> sz]) ELSE files
  /\ UNCHANGED <<lock, index, tap_state, emit_state, target_stdin, clock, pc, raised, locals,
                 histv>>

\* -------------------------------------------------- reservoir_to_target
Max(S) == CHOOSE x \in S : \A y \in S : y <= x

\* setdefault(RESERVOIR_VERSION_KEY, 0)
SetDefaultVersion(d) == [d EXCEPT !.ver = IF @ = NoVer THEN 0 ELSE @]

\* the index rebuilt from the objects of the store, __version__ 0
RebuiltIndex(fs) ==
  [exists |-> TRUE, ver |-> 0,
   keys |-> {q.stream : q \in DOMAIN fs},
   paths |-> [s \in Streams |-> GlobSorted(fs, s)]]

\* the version reconciliation: for path in sorted(paths): if fname > emitted: emitted = fname
Reconcile(st, idx) ==
  [st EXCEPT
     !.emitted = [s \in Streams |->
                    IF s \in idx.keys /\ s \in st.known
                      THEN Max({st.emitted[s]} \cup {q.ts : q \in Range(idx.paths[s])})
                      ELSE st.emitted[s]],
     !.ver = idx.ver]

\* load the state and the index (rebuilding a missing index), reconcile the versions
EmitStart(p) ==
  /\ UNCHANGED taskv
  /\ Begin(p, "emit_loop")
  /\ LET st == SetDefaultVersion(emit_state)
         idx == IF index.exists THEN SetDefaultVersion(index) ELSE RebuiltIndex(files)
         differ == st.ver # idx.ver
         st2 == IF differ THEN Reconcile(st, idx) ELSE st
     IN /\ index' = IF index.exists THEN index ELSE idx
        /\ reservoir' = [reservoir EXCEPT ![p] = idx]
        /\ emitter_states' = [emitter_states EXCEPT ![p] = st2]
        /\ emit_state' = IF differ THEN st2 ELSE emit_state
        /\ todo' = [todo EXCEPT ![p] = idx.keys]
  /\ UNCHANGED <<lock, files, tap_state, target_stdin, clock, raised, pending, changed, ingestv,
                 work, job, fetched, writing, tapped, hist, held, cmp>>

\* paths_by_schema: the paths grouped by schema_id, groups in order of first occurrence
RECURSIVE PartitionBySchema(_)
PartitionBySchema(paths) ==
  IF paths = <<>> THEN <<>>
  ELSE LET k == paths[1].schema
       IN <<SelectSeq(paths, LAMBDA q : q.schema = k)>>
          \o PartitionBySchema(SelectSeq(paths, LAMBDA q : q.schema # k))

\* visit the next stream of the index: its work queue, partitioned by schema
EmitStream(p, s) ==
  /\ UNCHANGED taskv
  /\ pc[p] = "emit_loop"
  /\ work[p] = <<>>
  /\ s \in todo[p]
  /\ LET st == emitter_states[p]
         st2 == IF s \in st.known THEN st
                ELSE [st EXCEPT !.known = @ \cup {s}, !.emitted[s] = 0]
         work_queue == SelectSeq(reservoir[p].paths[s], LAMBDA q : q.ts > st2.emitted[s])
         parts == PartitionBySchema(work_queue)
     IN /\ emitter_states' = [emitter_states EXCEPT ![p] = st2]
        /\ work' = [work EXCEPT ![p] = parts]
        /\ job' = [job EXCEPT ![p] = IF parts = <<>> THEN {} ELSE Range(parts[1])]
  /\ todo' = [todo EXCEPT ![p] = @ \ {s}]
  /\ UNCHANGED <<shared, pc, raised, pending, reservoir, changed, ingestv, fetched, writing,
                 histv>>

\* reservoir_emitter: stream = gzip.decompress(filesystem.fs.cat(path))
EmitFetch(p, path) ==
  /\ UNCHANGED taskv
  /\ pc[p] = "emit_loop"
  /\ path \in job[p]
  /\ path \in DOMAIN files
  /\ job' = [job EXCEPT ![p] = @ \ {path}]
  /\ fetched' = [fetched EXCEPT ![p] = @ \cup {[path |-> path, lines |-> files[path].lines]}]
  /\ UNCHANGED <<shared, pc, raised, pending, reservoir, changed, ingestv, emitter_states, todo,
                 work, writing, histv>>

\* the worker as it would enter the block without the lock
EmitLockFree(p, w) ==
  /\ UNCHANGED taskv
  /\ pc[p] = "emit_loop"
  /\ w \in fetched[p]
  /\ fetched' = [fetched EXCEPT ![p] = @ \ {w}]
  /\ writing' = [writing EXCEPT ![p] =
                   IF w.lines = <<>> THEN @ ELSE @ \cup {[path |-> w.path, lines |-> w.lines, n |-> 0]}]
  /\ UNCHANGED <<shared, pc, raised, pending, reservoir, changed, ingestv, emitter_states, todo,
                 work, job, histv>>

\* reservoir_emitter: with lock: the worker enters when no other worker is inside
EmitLock(p, w) ==
  /\ UNCHANGED taskv
  /\ pc[p] = "emit_loop"
  /\ w \in fetched[p]
  /\ writing[p] = {}
  /\ fetched' = [fetched EXCEPT ![p] = @ \ {w}]
  /\ writing' = [writing EXCEPT ![p] =
                   IF w.lines = <<>> THEN @ ELSE @ \cup {[path |-> w.path, lines |-> w.lines, n |-> 0]}]
  /\ UNCHANGED <<shared, pc, raised, pending, reservoir, changed, ingestv, emitter_states, todo,
                 work, job, histv>>

\* reservoir_emitter: stdin.writelines(...) writes the next line of the batch; after the
\* last one the worker leaves the block and returns its path
EmitWrite(p, w) ==
  /\ UNCHANGED taskv
  /\ pc[p] = "emit_loop"
  /\ w \in writing[p]
  /\ target_stdin' = Append(target_stdin, w.lines[w.n + 1])
  /\ writing' = [writing EXCEPT ![p] =
                   IF w.n + 1 = Len(w.lines) THEN @ \ {w}
                   ELSE (@ \ {w}) \cup {[w EXCEPT !.n = @ + 1]}]
  /\ UNCHANGED <<lock, index, files, tap_state, emit_state, clock, pc, raised, pending,
                 reservoir, changed, ingestv, emitter_states, todo, work, job, fetched, histv>>

\* a worker whose exception is lost: the run ends as if every worker had returned
EmitFailUnraised(p, path) ==
  /\ UNCHANGED taskv
  /\ pc[p] = "emit_loop"
  /\ path \in job[p]
  /\ path \notin DOMAIN files
  /\ End(p, "emit", "")
  /\ UNCHANGED <<shared, pending, tapped, nruns, held, cmp>>

\* reservoir_emitter: the object is not in the store; the worker's exception is raised
\* in reservoir_to_target when it reads the results of the partition
EmitFail(p, path) ==
  /\ UNCHANGED taskv
  /\ pc[p] = "emit_loop"
  /\ path \in job[p]
  /\ path \notin DOMAIN files
  /\ End(p, "emit", "FileNotFoundError")
  /\ UNCHANGED <<shared, pending, tapped, nruns, held, cmp>>

\* reservoir_emitter: the target has closed its stdin and stdin.writelines raises; `with
\* lock` releases the lock and the exception is raised in reservoir_to_target as above
EmitWriteFail(p, w) ==
  /\ UNCHANGED taskv
  /\ pc[p] = "emit_loop"
  /\ w \in writing[p]
  /\ End(p, "emit", "BrokenPipeError")
  /\ UNCHANGED <<shared, pending, tapped, nruns, held, cmp>>

\* the bookmark as it would be when taken from the first path of the partition
EmitPersistFirst(p) ==
  /\ UNCHANGED taskv
  /\ pc[p] = "emit_loop"
  /\ work[p] # <<>>
  /\ job[p] = {} /\ fetched[p] = {} /\ writing[p] = {}
  /\ LET part == work[p][1]
         s == part[1].stream
         st2 == [emitter_states[p] EXCEPT !.emitted[s] = part[1].ts]
     IN /\ emitter_states' = [emitter_states EXCEPT ![p] = st2]
        /\ emit_state' = st2
  /\ work' = [work EXCEPT ![p] = Tail(@)]
  /\ job' = [job EXCEPT ![p] = IF Len(work[p]) > 1 THEN Range(work[p][2]) ELSE {}]
  /\ UNCHANGED <<lock, index, files, tap_state, target_stdin, clock, pc, raised, pending,
                 reservoir, changed, ingestv, todo, fetched, writing, histv>>

\* every worker of the partition returned: advance the bookmark and persist the state
EmitPersist(p) ==
  /\ UNCHANGED taskv
  /\ pc[p] = "emit_loop"
  /\ work[p] # <<>>
  /\ job[p] = {} /\ fetched[p] = {} /\ writing[p] = {}
  /\ LET part == work[p][1]
         s == part[1].stream
         st2 == [emitter_states[p] EXCEPT
                   !.emitted[s] = Max({@} \cup {q.ts : q \in Range(part)})]
     IN /\ emitter_states' = [emitter_states EXCEPT ![p] = st2]
        /\ emit_state' = st2
  /\ work' = [work EXCEPT ![p] = Tail(@)]
  /\ job' = [job EXCEPT ![p] = IF Len(work[p]) > 1 THEN Range(work[p][2]) ELSE {}]
  /\ UNCHANGED <<lock, index, files, tap_state, target_stdin, clock, pc, raised, pending,
                 reservoir, changed, ingestv, todo, fetched, writing, histv>>

\* close the target
EmitClose(p) ==
  /\ UNCHANGED taskv
  /\ pc[p] = "emit_loop"
  /\ work[p] = <<>>
  /\ todo[p] = {}
  /\ End(p, "emit", "")
  /\ UNCHANGED <<shared, pending, tapped, nruns, held, cmp>>

\* ----------------------------------------------------- compact_reservoir
StartCompact(p) ==
  /\ UNCHANGED taskv
  /\ Begin(p, "cmp_check")
  /\ UNCHANGED <<shared, raised, pending, locals, tapped, hist, held, cmp>>

\* if filesystem.fs.exists(lock_path): raise RuntimeError
CompactLockCheck(p) ==
  /\ UNCHANGED taskv
  /\ pc[p] = "cmp_check"
  /\ IF lock # NoLock
       THEN End(p, "compact", "locked")
       ELSE Goto(p, "cmp_lock") /\ UNCHANGED <<hist, raised, locals>>
  /\ UNCHANGED <<shared, pending, tapped, nruns, held, cmp>>

\* filesystem.fs.pipe(lock_path, "compaction in progress")
CompactAcquire(p) ==
  /\ UNCHANGED taskv
  /\ pc[p] = "cmp_lock"
  /\ lock' = CompactionMark
  /\ held' = held \cup {p}
  /\ Goto(p, "cmp_load")
  /\ UNCHANGED <<index, files, tap_state, emit_state, target_stdin, clock, raised, pending,
                 locals, tapped, hist, nruns, cmp>>

\* load the index; except FileNotFoundError: return
CompactLoad(p) ==
  /\ UNCHANGED taskv
  /\ pc[p] = "cmp_load"
  /\ IF index.exists
       THEN /\ reservoir' = [reservoir EXCEPT ![p] = index]
            /\ cmp' = [files |-> files, index |-> index, caught |-> FALSE]
            /\ Goto(p, "cmp_merge")
            /\ UNCHANGED <<hist, raised, changed, ingestv, emitv>>
       ELSE /\ End(p, "compact", "")
            /\ UNCHANGED cmp
  /\ UNCHANGED <<shared, pending, tapped, nruns, held>>

\* the merge sets of one partition, in the order they are merged:
\* compactable is popped from its end into merge_queue until queue_bytes > 2.5e7
RECURSIVE MergeLoop(_, _, _)
MergeLoop(compactable, merge_queue, queue_bytes) ==
  IF compactable = <<>>
    THEN (IF merge_queue # {} THEN <<merge_queue>> ELSE <<>>)
  ELSE LET e == compactable[Len(compactable)]
           rest == SubSeq(compactable, 1, Len(compactable) - 1)
           mq == merge_queue \cup {e.path}
           qb == queue_bytes + e.size
       IN IF qb > CompactThreshold
            THEN <<mq>> \o MergeLoop(rest, {}, 0)
            ELSE MergeLoop(rest, mq, qb)

\* compactable = [(path, sz) for path, sz in paths_with_size if sz < 2.5e7]
Compactable(paths_with_size) == SelectSeq(paths_with_size, LAMBDA e : e.size < CompactThreshold)

PartitionMerges(paths_with_size) ==
  IF Len(Compactable(paths_with_size)) < 2 THEN <<>>
  ELSE MergeLoop(Compactable(paths_with_size), {}, 0)

RECURSIVE PartitionsMerges(_, _)
PartitionsMerges(parts, fs) ==
  IF parts = <<>> THEN <<>>
  ELSE PartitionMerges([i \in 1..Len(parts[1]) |->
                          [path |-> parts[1][i], size |-> fs[parts[1][i]].size]])
       \o PartitionsMerges(Tail(parts), fs)

\* the merge sets of the whole run, stream by stream, up to the first stream with a
\* listed path that fs.size cannot find
RECURSIVE Plan(_, _, _)
Plan(idx, fs, S) ==
  IF S = {} THEN [merges |-> <<>>, raises |-> FALSE]
  ELSE LET s == CHOOSE x \in S : \A y \in S : x <= y
           paths == idx.paths[s]
       IN IF ~(Len(paths) > 1) THEN Plan(idx, fs, S \ {s})
          ELSE IF \E q \in Range(paths) : q \notin DOMAIN fs
            THEN [merges |-> <<>>, raises |-> TRUE]
          ELSE LET later == Plan(idx, fs, S \ {s})
               IN [later EXCEPT
                     !.merges = PartitionsMerges(PartitionBySchema(paths), fs) \o @]

\* reduce(lambda acc, n: acc + n, fs.cat(targets).values())
RECURSIVE Concat(_, _)
Concat(fs, targets) ==
  IF targets = <<>> THEN [lines |-> <<>>, size |-> 0]
  ELSE LET r == Concat(fs, Tail(targets))
       IN [lines |-> fs[targets[1]].lines \o r.lines, size |-> fs[targets[1]].size + r.size]

\* the merge as it would be when written to targets[0]
MergeWriteFirst(fs, merge_queue) ==
  LET targets == SortPaths(merge_queue)
  IN Pipe(fs, targets[1], Concat(fs, targets))

\* targets = sorted(merge_queue); fs.pipe(targets[-1], ...)
MergeWrite(fs, merge_queue) ==
  LET targets == SortPaths(merge_queue)
  IN Pipe(fs, targets[Len(targets)], Concat(fs, targets))

\* the removal as it would be with fs.rm(targets[1:])
MergeRemoveTail(fs, merge_queue) ==
  LET targets == SortPaths(merge_queue)
  IN Rm(fs, merge_queue \ {targets[1]})

\* fs.rm(targets[:-1])
MergeRemove(fs, merge_queue) ==
  LET targets == SortPaths(merge_queue)
  IN Rm(fs, merge_queue \ {targets[Len(targets)]})

RECURSIVE ApplyMerges(_, _, _, _)
ApplyMerges(fs, merges, failAt, mode) ==
  IF merges = <<>> \/ (failAt = 1 /\ mode = "pipe") THEN fs
  ELSE IF failAt = 1 THEN MergeWrite(fs, merges[1])
  ELSE ApplyMerges(MergeRemove(MergeWrite(fs, merges[1]), merges[1]), Tail(merges),
                   failAt - 1, mode)

\* the try block: every merge of the run, or the merges up to the store operation that
\* raises (failAt = 0: the store raises nowhere); except Exception: changed = True
CompactMerge(p, failAt, mode) ==
  /\ UNCHANGED taskv
  /\ pc[p] = "cmp_merge"
  /\ LET plan == Plan(reservoir[p], files, reservoir[p].keys)
     IN /\ failAt <= Len(plan.merges)
        /\ failAt = 0 => mode = "pipe"
        /\ files' = ApplyMerges(files, plan.merges, failAt, mode)
        /\ changed' = [changed EXCEPT ![p] = plan.merges # <<>> \/ plan.raises \/ failAt > 0]
        /\ cmp' = [cmp EXCEPT !.caught = plan.raises \/ failAt > 0]
  /\ Goto(p, "cmp_rebuild")
  /\ UNCHANGED <<lock, index, tap_state, emit_state, target_stdin, clock, raised, pending,
                 reservoir, ingestv, emitv, tapped, hist, nruns, held>>

\* reservoir[__version__] = reservoir.get(__version__, 0) + 1; glob every stream
Rebuild(idx, fs) ==
  [idx EXCEPT !.ver = VersionOf(idx) + 1,
              !.paths = [s \in Streams |-> IF s \in idx.keys THEN GlobSorted(fs, s) ELSE @[s]]]

\* the rebuild as it would be without the test of `changed`
CompactRebuildAlways(p) ==
  /\ UNCHANGED taskv
  /\ pc[p] = "cmp_rebuild"
  /\ reservoir' = [reservoir EXCEPT ![p] = Rebuild(@, files)]
  /\ index' = Rebuild(reservoir[p], files)
  /\ Goto(p, "cmp_unlock")
  /\ UNCHANGED <<lock, files, tap_state, emit_state, target_stdin, clock, raised, pending,
                 changed, ingestv, emitv, histv>>

\* if changed: rebuild and upload the index
CompactRebuild(p) ==
  /\ UNCHANGED taskv
  /\ pc[p] = "cmp_rebuild"
  /\ IF changed[p]
       THEN /\ reservoir' = [reservoir EXCEPT ![p] = Rebuild(@, files)]
            /\ index' = Rebuild(reservoir[p], files)
       ELSE UNCHANGED <<reservoir, index>>
  /\ Goto(p, "cmp_unlock")
  /\ UNCHANGED <<lock, files, tap_state, emit_state, target_stdin, clock, raised, pending,
                 changed, ingestv, emitv, histv>>

\* finally: filesystem.fs.delete(lock_path)
CompactUnlock(p) ==
  /\ UNCHANGED taskv
  /\ pc[p] = "cmp_unlock"
  /\ lock' = NoLock
  /\ held' = held \ {p}
  /\ End(p, "compact", "")
  /\ UNCHANGED <<index, files, tap_state, emit_state, target_stdin, clock, pending, tapped,
                 nruns, cmp>>

\* ------------------------------------------------------------- task graph
\* the tasks doit runs for `alto tap:target` in a project whose tap inherits from a
\* base tap: the pipeline task and every task it reaches by task_dep and setup
PipelineTask == "tap:target"
BuildTasks == {"build:tap-base", "build:tap", "build:target"}
ConfigTasks == {"config:tap", "config:target--tap"}
Tasks == BuildTasks \cup ConfigTasks \cup {"catalog:tap", "apply:tap", PipelineTask}

\* task_apply without its set_task_dep
task_dep_apply_free(t) ==
  CASE t = "build:tap" -> {"build:tap-base"}
    [] t = "catalog:tap" -> {"build:tap"}
    [] t = PipelineTask -> {"build:tap", "apply:tap", "build:target"}
    [] OTHER -> {}

\* set_task_dep of the task generators
task_dep(t) ==
  CASE t = "build:tap" -> {"build:tap-base"}
    [] t = "catalog:tap" -> {"build:tap"}
    [] t = "apply:tap" -> {"catalog:tap"}
    [] t = PipelineTask -> {"build:tap", "apply:tap", "build:target"}
    [] OTHER -> {}

\* set_setup of the task generators
setup(t) ==
  CASE t = "catalog:tap" -> {"config:tap"}
    [] t = PipelineTask -> {"config:target--tap", "config:tap"}
    [] OTHER -> {}

\* set_uptodate: the answers the up-to-date check of a task may give; a task with
\* set_uptodate(False), and one without a check, is never up to date
uptodate(t) ==
  IF t \in {"build:tap-base", "build:target", "catalog:tap", "apply:tap"} THEN BOOLEAN
  ELSE {FALSE}

NoCode == -1
NoError == [type |-> "", returncode |-> 0, cmd |-> ""]
CalledProcessError(returncode, cmd) ==
  [type |-> "CalledProcessError", returncode |-> returncode, cmd |-> cmd]
OtherError(type) == [type |-> type, returncode |-> 0, cmd |-> ""]
\* run_pipeline: cmd, and the argument list of the target's Popen
TapCmd == "tap_bin --config tap_config"
TargetCmd == "target_bin --config target_config"

NoState == [exists |-> FALSE, lines |-> {}]
StateOf(lines) == [exists |-> TRUE, lines |-> lines]
ExitCodes == 0..MaxExitCode

\* the pipeline task before it starts
IdlePipeline(supports_state, state) ==
  [at |-> "idle", supports_state |-> supports_state, before |-> state,
   state |-> NoState, state_log |-> [exists |-> FALSE, lines |-> <<>>],
   tap_log |-> FALSE, target_log |-> FALSE, tap_code |-> NoCode, target_code |-> NoCode,
   error |-> NoError, teardown_error |-> NoError, upload_attempted |-> FALSE,
   mappers |-> <<>>, map_thread |-> "none", tap_left |-> 0, tap_stdout |-> <<>>,
   printed |-> <<>>, target_in |-> <<>>]

\* no task has run; the store holds the state object `state`, or none, and no logs
IdleTasks(supports_state, state) ==
  /\ task_status = [t \in Tasks |-> "wait"]
  /\ started = {}
  /\ pl = IdlePipeline(supports_state, state)
  /\ remote = [state |-> state, copies |-> 0, logs |-> {}]

\* doit skips a task whose task_dep have ended and that is up to date
TaskSkip(t) ==
  /\ task_status[t] = "wait"
  /\ TRUE \in uptodate(t)
  /\ \A d \in task_dep(t) : task_status[d] = "done"
  /\ task_status' = [task_status EXCEPT ![t] = "done"]
  /\ UNCHANGED <<started, pl, remote, reservoirv>>

\* doit starts the actions of a task that is not up to date once its task_dep and then
\* its setup tasks have ended; the pipeline task begins with get_remote_state
TaskStart(t) ==
  /\ task_status[t] = "wait"
  /\ FALSE \in uptodate(t)
  /\ \A d \in task_dep(t) \cup setup(t) : task_status[d] = "done"
  /\ task_status' = [task_status EXCEPT ![t] = "run"]
  /\ started' = started \cup {t}
  /\ pl' = IF t = PipelineTask THEN [pl EXCEPT !.at = "get_remote_state"] ELSE pl
  /\ UNCHANGED <<remote, reservoirv>>

\* the actions of a build, config, catalog or apply task end
TaskEnd(t, ok) ==
  /\ t # PipelineTask
  /\ task_status[t] = "run"
  /\ task_status' = [task_status EXCEPT ![t] = IF ok THEN "done" ELSE "fail"]
  /\ UNCHANGED <<started, pl, remote, reservoirv>>

\* doit does not run a task when a task it depends on has failed
TaskCancel(t) ==
  /\ task_status[t] = "wait"
  /\ \E d \in task_dep(t) \cup setup(t) : task_status[d] = "fail"
  /\ task_status' = [task_status EXCEPT ![t] = "fail"]
  /\ UNCHANGED <<started, pl, remote, reservoirv>>

\* an action of the pipeline task raises: the task fails, its other actions do not run
PipelineFails(now, err) ==
  /\ pl' = [now EXCEPT !.at = "finished", !.error = err]
  /\ task_status' = [task_status EXCEPT ![PipelineTask] = "fail"]

\* get_remote_state: download the remote state file when there is one
GetRemoteState(ok) ==
  /\ pl.at = "get_remote_state"
  /\ IF pl.supports_state /\ remote.state.exists
     THEN IF ok THEN /\ pl' = [pl EXCEPT !.at = "popen", !.state = remote.state]
                     /\ UNCHANGED task_status
          ELSE PipelineFails(pl, OtherError("get"))
     ELSE /\ ok
          /\ pl' = [pl EXCEPT !.at = "popen"]
          /\ UNCHANGED task_status
  /\ UNCHANGED <<started, remote, reservoirv>>

\* run_pipeline up to t1.start(), t2.start(): start the tap, open the state log, start
\* the target, start the two loggers; `fails` is the Popen that raises, "" for none
RunPipelinePopen(fails) ==
  /\ pl.at = "popen"
  /\ CASE fails = "tap" -> PipelineFails(pl, OtherError("OSError"))
       [] fails = "target" ->
            PipelineFails([pl EXCEPT !.state_log = [exists |-> TRUE, lines |-> <<>>]],
                          OtherError("OSError"))
       [] OTHER ->
            /\ pl' = [pl EXCEPT !.at = "streaming",
                                !.state_log = [exists |-> TRUE, lines |-> <<>>],
                                !.tap_log = TRUE, !.target_log = TRUE,
                                !.map_thread = IF pl.mappers # <<>> THEN "running" ELSE "none"]
            /\ UNCHANGED task_status
  /\ UNCHANGED <<started, remote, reservoirv>>

\* the target prints a STATE line on its stdout, which is the state log
TargetPrintsState ==
  /\ pl.at = "streaming"
  /\ pl.target_code = NoCode
  /\ Len(pl.state_log.lines) < MaxStateLines
  /\ pl' = [pl EXCEPT !.state_log.lines = Append(@, Len(@) + 1)]
  /\ UNCHANGED <<task_status, started, remote, reservoirv>>

\* the tap exits; a tap that has output left is writing to its stdout pipe
TapExits(code) ==
  /\ pl.at = "streaming"
  /\ pl.tap_code = NoCode
  /\ pl.tap_left = 0
  /\ pl' = [pl EXCEPT !.tap_code = code]
  /\ UNCHANGED <<task_status, started, remote, reservoirv>>

TargetExits(code) ==
  /\ pl.at = "streaming"
  /\ pl.target_code = NoCode
  /\ pl' = [pl EXCEPT !.target_code = code]
  /\ UNCHANGED <<task_status, started, remote, reservoirv>>

\* the first teardown action of the tap -> reservoir task, update_remote_state_no_stdout,
\* run once after each run of tap_to_reservoir, failed or not: the local state file is
\* uploaded as the run left it
IngestRuns == Cardinality({i \in 1..Len(hist) : hist[i].kind = "ingest"})
UpdateRemoteStateNoStdout(p) ==
  /\ pc[p] = "idle"
  /\ remote.copies < IngestRuns
  /\ remote' = [remote EXCEPT !.state = tap_state, !.copies = @ + 1]
  /\ UNCHANGED <<task_status, started, pl, reservoirv>>

\* ------------------------------------------------------------ map_worker
\* a line of the tap's stdout: its message type ("" for a blank line, "INVALID" for a
\* line that is not JSON), its stream, its position in the tap's output, the way its
\* bytes are laid out, and the stream maps that have transformed the message
TapLine(type, stream, id, fmt) ==
  [type |-> type, stream |-> stream, id |-> id, fmt |-> fmt, by |-> <<>>]

\* json.dumps(message).encode("utf-8") + b"\n": the layout of the input line is lost
Dumps(msg) == [msg EXCEPT !.fmt = "dumps"]

\* for mapper in mappers: message = mapper.transform_record(message), or
\* transform_schema, of a stream map that returns a message
RECURSIVE Transform(_, _)
Transform(msg, mappers) ==
  IF mappers = <<>> THEN msg
  ELSE Transform([msg EXCEPT !.by = Append(@, Head(mappers))], Tail(mappers))

\* a worker that serialises every message it writes
MapLineDumpsAll(line, mappers) ==
  IF line.type \in {"", "INVALID"} THEN <<>>
  ELSE IF line.type \in {"RECORD", "SCHEMA"} THEN <<Dumps(Transform(line, mappers))>>
  ELSE <<Dumps(line)>>

\* the body of the loop of map_worker with mappers: what it writes for one line
MapLine(line, mappers) ==
  IF line.type \in {"", "INVALID"} THEN <<>>
  ELSE IF line.type \in {"RECORD", "SCHEMA"} THEN <<Dumps(Transform(line, mappers))>>
  ELSE <<line>>

\* the lines a tap may print after `printed`: a RECORD only of a stream whose SCHEMA
\* it has printed
NextTapLines(printed) ==
  LET id == Len(printed) + 1
      declared == {printed[i].stream : i \in {j \in 1..Len(printed) : printed[j].type = "SCHEMA"}}
  IN {TapLine(ty, s, id, f) : ty \in {"SCHEMA"}, s \in Streams, f \in {"compact", "dumps"}}
       \cup {TapLine("RECORD", s, id, f) : s \in declared, f \in {"compact", "dumps"}}
       \cup {TapLine(ty, 0, id, f) : ty \in {"STATE", "ACTIVATE_VERSION"},
                                     f \in {"compact", "dumps"}}
       \cup {TapLine("", 0, id, "compact"), TapLine("INVALID", 0, id, "compact")}

\* the tap writes a line to its stdout, a pipe that holds PipeCapacity lines
TapPrints(line) ==
  /\ pl.at = "streaming"
  /\ pl.tap_code = NoCode
  /\ pl.tap_left > 0
  /\ Len(pl.tap_stdout) < PipeCapacity
  /\ line \in NextTapLines(pl.printed)
  /\ pl' = [pl EXCEPT !.tap_stdout = Append(@, line), !.printed = Append(@, line),
                      !.tap_left = @ - 1]
  /\ UNCHANGED <<task_status, started, remote, reservoirv>>

\* map_worker: one turn of `for line in instream`
MapWorkerLine ==
  /\ pl.map_thread = "running"
  /\ pl.tap_stdout # <<>>
  /\ pl' = [pl EXCEPT !.tap_stdout = Tail(@),
                      !.target_in = @ \o MapLine(Head(pl.tap_stdout), pl.mappers)]
  /\ UNCHANGED <<task_status, started, remote, reservoirv>>

\* map_worker: a stream map raises on a message, or outstream.write does; the exception
\* ends the thread and nothing reads the tap's stdout any more
MapWorkerRaises ==
  /\ pl.map_thread = "running"
  /\ pl.tap_stdout # <<>>
  /\ Head(pl.tap_stdout).type \notin {"", "INVALID"}
  /\ pl' = [pl EXCEPT !.tap_stdout = Tail(@), !.map_thread = "raised"]
  /\ UNCHANGED <<task_status, started, remote, reservoirv>>

\* map_worker: the tap has exited and its stdout is drained, the loop ends
MapWorkerEOF ==
  /\ pl.map_thread = "running"
  /\ pl.tap_stdout = <<>>
  /\ pl.tap_code # NoCode
  /\ pl' = [pl EXCEPT !.map_thread = "done"]
  /\ UNCHANGED <<task_status, started, remote, reservoirv>>

\* the error run_pipeline raises after both waits, NoError when it returns
ExitError(tap_code, target_code) ==
  IF tap_code # 0 THEN CalledProcessError(tap_code, TapCmd)
  ELSE IF target_code # 0 THEN CalledProcessError(target_code, TapCmd)
  ELSE NoError

\* run_pipeline from tap_proc.wait() to its end
RunPipelineWait ==
  /\ pl.at = "streaming"
  /\ pl.tap_code # NoCode
  /\ pl.mappers # <<>> => pl.map_thread # "running"
  /\ pl.target_code # NoCode
  /\ LET err == ExitError(pl.tap_code, pl.target_code)
     IN IF err = NoError
        THEN /\ pl' = [pl EXCEPT !.at = "finished"]
             /\ task_status' = [task_status EXCEPT ![PipelineTask] = "done"]
        ELSE PipelineFails(pl, err)
  /\ UNCHANGED <<started, remote, reservoirv>>

\* update_state: the lines of the state log merged into the state file
MergeState(state, lines) == StateOf(state.lines \cup Range(lines))

\* the first teardown action, update_remote_state, run when the tasks have ended; when
\* it raises, doit does not run the teardown actions after it
UpdateRemoteState(ok) ==
  /\ pl.at = "finished"
  /\ IF pl.supports_state /\ pl.state_log.exists /\ pl.state_log.lines # <<>>
     THEN LET merged == MergeState(pl.state, pl.state_log.lines)
          IN IF ok
             THEN /\ pl' = [pl EXCEPT !.at = "upload_logs", !.state = merged,
                                      !.state_log.exists = FALSE]
                  /\ remote' = [remote EXCEPT !.state = merged, !.copies = @ + 1]
             ELSE /\ pl' = [pl EXCEPT !.at = "end", !.state = merged,
                                      !.teardown_error = OtherError("put")]
                  /\ UNCHANGED remote
     ELSE /\ ok
          /\ pl' = [pl EXCEPT !.at = "upload_logs"]
          /\ UNCHANGED remote
  /\ UNCHANGED <<task_status, started, reservoirv>>

\* the second teardown action, upload_logs
UploadLogs(ok) ==
  /\ pl.at = "upload_logs"
  /\ LET logs == {l \in {"tap", "target"} : IF l = "tap" THEN pl.tap_log ELSE pl.target_log}
     IN IF ok \/ logs = {}
        THEN /\ pl' = [pl EXCEPT !.at = "end", !.upload_attempted = TRUE,
                                 !.tap_log = FALSE, !.target_log = FALSE]
             /\ remote' = [remote EXCEPT !.logs = @ \cup logs]
        ELSE /\ pl' = [pl EXCEPT !.at = "end", !.upload_attempted = TRUE,
                                 !.teardown_error = OtherError("put")]
             /\ UNCHANGED remote
  /\ UNCHANGED <<task_status, started, reservoirv>>

\* ------------------------------------------------------------ catalog.py
\* a metadata entry of a stream: crumb is ".".join(breadcrumb[1:]), "" for the root entry;
\* selected is "true", "false" or "none" (the key is absent); by_default is
\* selected-by-default
Entry(crumb, selected, inclusion, by_default) ==
  [crumb |-> crumb, selected |-> selected, inclusion |-> inclusion, by_default |-> by_default]

\* SingerCatalogStreamMetadata(breadcrumb=[], metadata={}) after __post_init__
NewRoot == Entry("", "false", "available", FALSE)

\* a selection string prefix + stream + "." + crumb, prefix "", "!" or "~"
Selection(prefix, stream, crumb) == [prefix |-> prefix, stream |-> stream, crumb |-> crumb]

\* fnmatch.fnmatch for the globs "*" and a literal name
Fnmatch(name, glob) == glob = "*" \/ glob = name

\* the pattern list of apply_selected: stream.lstrip("!") keeps a leading "~", which is
\* then part of the stream glob; "*.*" is put first when every selection starts with "!"
Patterns(selections) ==
  LET given == IF selections = <<>> THEN <<Selection("", "*", "*")>> ELSE selections
      sels == IF \A i \in 1..Len(given) : given[i].prefix = "!"
              THEN <<Selection("", "*", "*")>> \o given ELSE given
      patterns == [i \in 1..Len(sels) |->
                     [tilde |-> sels[i].prefix = "~", stream_glob |-> sels[i].stream,
                      breadcrumb_glob |-> sels[i].crumb, invert |-> sels[i].prefix = "!"]]
  IN IF \A i \in 1..Len(patterns) : patterns[i].invert
     THEN <<[tilde |-> FALSE, stream_glob |-> "*", breadcrumb_glob |-> "*", invert |-> FALSE]>>
            \o patterns
     ELSE patterns

\* the index of the root entry, 0 when there is none
RootIx(metadata) ==
  IF \E i \in 1..Len(metadata) : metadata[i].crumb = ""
  THEN CHOOSE i \in 1..Len(metadata) :
         metadata[i].crumb = "" /\ \A j \in 1..(i - 1) : metadata[j].crumb # ""
  ELSE 0

\* Pass-1 for one stream: reset or append the root entry, then apply the patterns in order
RECURSIVE ApplyPatterns(_, _, _)
ApplyPatterns(stream_id, metadata, patterns) ==
  IF patterns = <<>> THEN metadata
  ELSE LET pat == Head(patterns)
           hit == ~pat.tilde /\ Fnmatch(stream_id, pat.stream_glob)
           next == [i \in 1..Len(metadata) |->
                      IF hit /\ Fnmatch(metadata[i].crumb, pat.breadcrumb_glob)
                      THEN [metadata[i] EXCEPT !.selected = IF pat.invert THEN "false" ELSE "true"]
                      ELSE metadata[i]]
       IN ApplyPatterns(stream_id, next, Tail(patterns))

Pass1(stream, patterns) ==
  LET root_ix == RootIx(stream.metadata)
      rooted == IF root_ix # 0 THEN [stream.metadata EXCEPT ![root_ix].selected = "none"]
                ELSE Append(stream.metadata, NewRoot)
  IN [stream EXCEPT !.metadata = ApplyPatterns(stream.id, rooted, patterns)]

\* _select_attribute: the entry as it leaves it, and the propagation state it returns
select_attribute(entry) ==
  IF entry.selected = "true" THEN [entry |-> entry, propagated |-> TRUE]
  ELSE IF entry.selected = "none" /\ entry.by_default
    THEN [entry |-> [entry EXCEPT !.selected = "true"], propagated |-> TRUE]
  ELSE IF entry.inclusion = "automatic"
    THEN [entry |-> [entry EXCEPT !.selected = "true"], propagated |-> FALSE]
  ELSE [entry |-> entry, propagated |-> FALSE]

\* any(_select_attribute(attr) for attr in stream.metadata) from entry i on: any() stops
\* at the first entry that propagates
RECURSIVE AnySelected(_, _)
AnySelected(metadata, i) ==
  IF i > Len(metadata) THEN [metadata |-> metadata, any |-> FALSE]
  ELSE LET r == select_attribute(metadata[i])
           next == [metadata EXCEPT ![i] = r.entry]
       IN IF r.propagated THEN [metadata |-> next, any |-> TRUE]
          ELSE AnySelected(next, i + 1)

\* a removal loop that keeps the schema as it is
RemoveAttrsKeepSchema(stream, metadata, strategy) ==
  IF strategy = "prune"
  THEN [stream EXCEPT !.metadata = SelectSeq(metadata, LAMBDA e : e.selected # "false")]
  ELSE [stream EXCEPT !.metadata = metadata]

\* for j in reversed(attr_to_remove): PRUNE pops the entry and removes its property from
\* the schema, DESELECT sets its flag, which is false already
RemoveAttrs(stream, metadata, strategy) ==
  IF strategy = "prune"
  THEN [stream EXCEPT !.metadata = SelectSeq(metadata, LAMBDA e : e.selected # "false"),
                      !.props = @ \ {metadata[j].crumb :
                                       j \in {i \in 1..Len(metadata) : metadata[i].selected = "false"}}]
  ELSE [stream EXCEPT !.metadata = metadata]

\* a removal of streams that ignores the strategy
RemoveStreamAlways(stream, strategy) == <<>>

\* for i in reversed(streams_to_remove): PRUNE pops the stream, DESELECT clears its flag
RemoveStream(stream, strategy) ==
  IF strategy = "prune" THEN <<>> ELSE <<[stream EXCEPT !.selected = FALSE]>>

\* Pass-2 for one stream: the streams it leaves in the catalog, none or one
Pass2(stream, strategy) ==
  LET a == AnySelected(stream.metadata, 1)
  IN IF ~a.any THEN RemoveStream([stream EXCEPT !.metadata = a.metadata], strategy)
     ELSE LET root_ix == RootIx(a.metadata)
              rooted == [a.metadata EXCEPT ![IF root_ix = 0 THEN 1 ELSE root_ix].selected = "true"]
              settled == [j \in 1..Len(rooted) |->
                            IF rooted[j].selected = "none"
                            THEN [rooted[j] EXCEPT !.selected = "true"] ELSE rooted[j]]
          IN <<RemoveAttrs([stream EXCEPT !.selected = TRUE], settled, strategy)>>

\* apply_selected on a parsed catalog
RECURSIVE apply_streams(_, _, _)
apply_streams(streams, patterns, strategy) ==
  IF streams = <<>> THEN <<>>
  ELSE Pass2(Pass1(Head(streams), patterns), strategy)
         \o apply_streams(Tail(streams), patterns, strategy)

apply_selected(catalog, selections, strategy) ==
  apply_streams(catalog, Patterns(selections), strategy)

\* apply_selected is called on fn.out
ApplySelected ==
  /\ fn.op = "apply_selected"
  /\ fn.n < MaxApplications
  /\ LET out == apply_selected(fn.out, fn.selections, fn.strategy)
     IN fn' = [fn EXCEPT !.n = @ + 1, !.out = out, !.first = IF fn.n = 0 THEN out ELSE @]
  /\ UNCHANGED statev

\* ------------------------------------------------------------ HashStreamMap
\* JSON Schema nodes by their "type": a string, a list of strings (["null", "string"]),
\* an array with items, an object with properties.
SchemaString == [type |-> "string"]
SchemaNullable == [type |-> "null,string"]
SchemaArray(items) == [type |-> "array", items |-> items]
SchemaObject(properties) == [type |-> "object", properties |-> properties]

\* record values: str, int, None, list, dict
Str(s) == [t |-> "str", s |-> s]
Num(s) == [t |-> "int", s |-> s]
None == [t |-> "None"]
List(items) == [t |-> "list", items |-> items]
Obj(m) == [t |-> "dict", m |-> m]

\* str(value) of a value that is neither a list nor a dict
str(value) == IF value.t = "None" THEN "None" ELSE value.s

\* md5(text).hexdigest(): a str that is a function of text alone
md5(text) == [t |-> "str", md5 |-> text]

\* the select list of the HashStreamMap: the selections that start with "~", without it
hash_rules(select) == SelectSeq(select, LAMBDA s : s.prefix = "~")

\* fnmatch.fnmatch(crumb, pat) for a dotted crumb, given as its names, and a pattern
\* <stream>.<field> whose parts are "*" or a literal name; "*" also matches dots
FnmatchCrumb(crumb, pat) ==
  /\ Len(crumb) >= 2
  /\ pat.stream = "*" \/ (pat.stream = crumb[1] /\ (pat.crumb = "*" \/ Len(crumb) = 2))
  /\ pat.crumb = "*" \/ (pat.crumb = crumb[Len(crumb)] /\ (pat.stream = "*" \/ Len(crumb) = 2))

\* crumb_selected that looks at the name of the field only
crumb_selected_any_stream(crumb, select) ==
  \E i \in 1..Len(select) : select[i].crumb \in {"*", crumb[Len(crumb)]}

crumb_selected(crumb, select) ==
  \E i \in 1..Len(select) : FnmatchCrumb(crumb, select[i])

jsonschema_string(value) == [type |-> "string", format |-> "hash"]
pii_hash(value) == md5(str(value))

\* recursive_schema_apply with _jsonschema_string: the calls made for the properties of
\* an object and for the items of an array return new nodes that are dropped, so a node
\* of type "object" or "array" is returned as it is.
recursive_schema_apply(value, crumb, select) ==
  IF value.type = "object" THEN value
  ELSE IF value.type = "array" THEN value
  ELSE IF crumb_selected(crumb, select) THEN jsonschema_string(value)
  ELSE value

\* recursive_record_apply with _pii_hash
RECURSIVE recursive_record_apply(_, _, _)
recursive_record_apply(value, crumb, select) ==
  IF value.t = "dict"
  THEN Obj([k \in DOMAIN value.m |-> recursive_record_apply(value.m[k], Append(crumb, k), select)])
  ELSE IF value.t = "list"
  THEN List([i \in 1..Len(value.items) |-> recursive_record_apply(value.items[i], crumb, select)])
  ELSE IF crumb_selected(crumb, select) THEN pii_hash(value)
  ELSE value

transform_schema(schema, select) ==
  [schema EXCEPT !.properties =
     [k \in DOMAIN @ |-> recursive_schema_apply(@[k], <<schema.stream, k>>, select)]]

transform_record(record, select) ==
  [record EXCEPT !.record =
     [k \in DOMAIN @ |-> recursive_record_apply(@[k], <<record.stream, k>>, select)]]

\* what map_worker writes for one parsed line of the tap with the mappers of
\* get_stream_maps: the HashStreamMap when there is a hash rule, none otherwise
MapMessage(msg, select) ==
  IF hash_rules(select) = <<>> THEN msg
  ELSE IF msg.type = "RECORD" THEN transform_record(msg, hash_rules(select))
  ELSE IF msg.type = "SCHEMA" THEN transform_schema(msg, hash_rules(select))
  ELSE msg

\* one iteration of map_worker's loop in a pipeline of a tap with fn.select
MapWorkerHash ==
  /\ fn.op = "hash"
  /\ fn.n < Len(fn.lines)
  /\ fn' = [fn EXCEPT !.n = @ + 1,
                      !.out = Append(@, MapMessage(fn.lines[fn.n + 1], fn.select))]
  /\ UNCHANGED statev

\* --------------------------------------------------------- AltoPlugin.select
\* a value that is set, as opposed to None
Some(v) == [t |-> "some", v |-> v]

\* self.spec.get("select", ["*.*"])
ConfiguredSelect(spec_select) ==
  IF spec_select = None THEN <<Selection("", "*", "*")>> ELSE spec_select.v

\* the select property: the override if one is set, else the configured list
SelectGetter(plugin) ==
  IF plugin._select = None THEN ConfiguredSelect(plugin.spec_select) ELSE plugin._select.v

\* a setter that keeps nothing of the list it replaces
NoRetainedRules(select, retain) == <<>>

\* [rule for rule in self.select if rule.startswith("~") and self._retain_hash_rules]
RetainedRules(select, retain) ==
  SelectSeq(select, LAMBDA rule : rule.prefix = "~" /\ retain)

\* plugin.select = value
SelectSetter(value) ==
  /\ fn.op = "select"
  /\ fn.n < MaxOverrides
  /\ fn' = [fn EXCEPT !.n = @ + 1,
                      !.value = value,
                      !._select = Some((IF value = <<>> THEN <<Selection("", "*", "*")>> ELSE value)
                                         \o RetainedRules(SelectGetter(fn), fn._retain_hash_rules))]
  /\ UNCHANGED statev

\* get_stream_maps of a plugin with no custom stream_maps: reading self.select fills
\* _select from the spec when no override was made
GetStreamMaps ==
  /\ fn.op = "select"
  /\ fn.calls < MaxOverrides
  /\ LET rules == hash_rules(SelectGetter(fn))
     IN fn' = [fn EXCEPT !.calls = @ + 1,
                         !._select = Some(SelectGetter(fn)),
                         !.mappers = IF fn.type # "tap" \/ rules = <<>> THEN <<>>
                                     ELSE <<[map |-> "HashStreamMap", select |-> rules]>>]
  /\ UNCHANGED statev

\* ------------------------------------------- generate_catalog and build_pex
\* a production that leaves the file it was writing in place
KeepCompromised(local, what) == [local EXCEPT ![what] = "partial"]

\* os.remove of the artifact after a failed production (build_pex tolerates a file
\* that was never written)
RemoveCompromised(local, what) == [local EXCEPT ![what] = "absent"]

\* generate_catalog up to the upload: open(catalog, "w") and the tap's --discover with
\* check=True; a non-zero exit removes the catalog and re-raises
GenerateCatalogDiscover(returncode) ==
  /\ fn.op = "produce"
  /\ fn.at = "idle"
  /\ fn.n < MaxProductions
  /\ IF returncode = 0
     THEN fn' = [fn EXCEPT !.n = @ + 1, !.what = "catalog", !.code = returncode,
                           !.local = [@ EXCEPT !["catalog"] = "built"],
                           !.at = "put", !.raised = ""]
     ELSE fn' = [fn EXCEPT !.n = @ + 1, !.what = "catalog", !.code = returncode,
                           !.local = RemoveCompromised([@ EXCEPT !["catalog"] = "partial"],
                                                       "catalog"),
                           !.raised = "CalledProcessError"]
  /\ UNCHANGED statev

\* build_pex up to the upload: pex.bin.pex.main returns or exits with SystemExit; a
\* code other than None and 0 removes the output and re-raises
BuildPexMain(code, wrote) ==
  /\ fn.op = "produce"
  /\ fn.at = "idle"
  /\ fn.n < MaxProductions
  /\ IF code \in {NoCode, 0}
     THEN fn' = [fn EXCEPT !.n = @ + 1, !.what = "pex", !.code = code,
                           !.local = [@ EXCEPT !["pex"] = "built"],
                           !.at = "put", !.raised = ""]
     ELSE fn' = [fn EXCEPT !.n = @ + 1, !.what = "pex", !.code = code,
                           !.local = RemoveCompromised(
                                       [@ EXCEPT !["pex"] = IF wrote THEN "partial" ELSE @],
                                       "pex"),
                           !.raised = "SystemExit"]
  /\ UNCHANGED statev

\* filesystem.fs.put(local, remote) as the last statement of either function
CachePut(ok) ==
  /\ fn.op = "produce"
  /\ fn.at = "put"
  /\ IF ok
     THEN fn' = [fn EXCEPT !.at = "idle", !.remote = [@ EXCEPT ![fn.what] = "built"]]
     ELSE fn' = [fn EXCEPT !.at = "idle", !.raised = "PutError"]
  /\ UNCHANGED statev

\* ------------------------------------------------------------ render_config
\* renders on one settings object: the tasks of task_config share its config_lock, a
\* tap_runner call passes a threading.Lock() of its own
Renders == {"tap", "target", "target--tap", "runner"}
LockOf(r) == IF r = "runner" THEN "runner_lock" ELSE "config_lock"

\* accent.namespace if accent is not None else plugin.namespace; the target sets an
\* empty load_path
NamespaceOverride(r) ==
  CASE r = "tap" -> "ns_tap"
    [] r = "target" -> ""
    [] r = "target--tap" -> "ns_tap"
    [] r = "runner" -> "ns_other"

\* with lock:
RenderAcquire(r) ==
  /\ fn.op = "render"
  /\ fn.r[r].pc = "start"
  /\ LockOf(r) \notin fn.held
  /\ fn' = [fn EXCEPT !.held = @ \cup {LockOf(r)},
                      !.r[r].pc = "read", !.r[r].before = fn.LOAD_PATH]
  /\ UNCHANGED statev

\* original_namespace = deepcopy(settings["LOAD_PATH"])
RenderRead(r) ==
  /\ fn.op = "render"
  /\ fn.r[r].pc = "read"
  /\ fn' = [fn EXCEPT !.r[r].pc = "set", !.r[r].original = fn.LOAD_PATH]
  /\ UNCHANGED statev

\* if namespace_override: settings["LOAD_PATH"] = namespace_override
RenderSet(r) ==
  /\ fn.op = "render"
  /\ fn.r[r].pc = "set"
  /\ fn' = [fn EXCEPT !.r[r].pc = "write",
                      !.LOAD_PATH = IF NamespaceOverride(r) # "" THEN NamespaceOverride(r) ELSE @]
  /\ UNCHANGED statev

\* config.to_dict(), mkdir, open and json.dump: the templates are substituted under the
\* LOAD_PATH of this moment; an exception leaves the with block, which releases the
\* lock, and the function
RenderWrite(r, ok) ==
  /\ fn.op = "render"
  /\ fn.r[r].pc = "write"
  /\ IF ok
     THEN fn' = [fn EXCEPT !.r[r].pc = "reset", !.r[r].rendered_under = fn.LOAD_PATH]
     ELSE fn' = [fn EXCEPT !.r[r].pc = "failed", !.held = @ \ {LockOf(r)}]
  /\ UNCHANGED statev

\* settings["LOAD_PATH"] = original_namespace, then the end of the with block
RenderReset(r) ==
  /\ fn.op = "render"
  /\ fn.r[r].pc = "reset"
  /\ fn' = [fn EXCEPT !.r[r].pc = "done", !.LOAD_PATH = fn.r[r].original,
                      !.held = @ \ {LockOf(r)}]
  /\ UNCHANGED statev

\* --------------------------------------------------------------- dlt_singer.py
\* the stream names of the demuxer, in the order of self.streams
DemuxStreams == <<"users", "orders">>
EndOfStream == [typ |-> "None"]

\* SingerTapDemux.run, one payload of tap_stream: a RECORD goes to its stream's queue,
\* a STATE to the queue of the first stream, a SCHEMA nowhere
DemuxPayload(typ, stream) ==
  /\ fn.op = "demux"
  /\ fn.producer = "run"
  /\ fn.payloads < MaxPayloads
  /\ fn' = [fn EXCEPT !.payloads = @ + 1,
                      !.queue = CASE typ = "STATE" ->
                                       [@ EXCEPT ![DemuxStreams[1]] = Append(@, [typ |-> typ])]
                                  [] typ = "RECORD" -> [@ EXCEPT ![stream] = Append(@, [typ |-> typ])]
                                  [] OTHER -> @]
  /\ UNCHANGED statev

\* the tap ends and tap_runner's with block is left without error
DemuxTapEnds ==
  /\ fn.op = "demux"
  /\ fn.producer = "run"
  /\ fn' = [fn EXCEPT !.producer = "eos"]
  /\ UNCHANGED statev

\* an exception leaves run (the tap fails, or a RECORD names a stream that has no
\* queue): the thread dies with neither markers nor flag
DemuxRaises ==
  /\ fn.op = "demux"
  /\ fn.producer = "run"
  /\ fn' = [fn EXCEPT !.producer = "dead", !.crashed = TRUE]
  /\ UNCHANGED statev

\* for queue in self.streams.values(): queue.put(None), one queue per step
DemuxPutNone ==
  /\ fn.op = "demux"
  /\ fn.producer = "eos"
  /\ fn.signalled < Len(DemuxStreams)
  /\ fn' = [fn EXCEPT !.signalled = @ + 1,
                      !.queue[DemuxStreams[fn.signalled + 1]] = Append(@, EndOfStream)]
  /\ UNCHANGED statev

\* self.graceful_exit = True
DemuxGracefulExit ==
  /\ fn.op = "demux"
  /\ fn.producer = "eos"
  /\ fn.signalled = Len(DemuxStreams)
  /\ fn' = [fn EXCEPT !.producer = "returning", !.graceful_exit = TRUE]
  /\ UNCHANGED statev

\* run returns and the thread is no longer alive
DemuxThreadEnds ==
  /\ fn.op = "demux"
  /\ fn.producer = "returning"
  /\ fn' = [fn EXCEPT !.producer = "dead"]
  /\ UNCHANGED statev

\* _singer_stream, one round of the loop with an item in the queue: None breaks out of
\* the loop, a STATE is merged into the state and a RECORD is yielded
StreamGet(stream) ==
  /\ fn.op = "demux"
  /\ fn.consumer[stream] = "loop"
  /\ fn.queue[stream] # <<>>
  /\ fn' = [fn EXCEPT !.queue[stream] = Tail(@),
                      !.consumer[stream] = IF Head(fn.queue[stream]) = EndOfStream
                                           THEN "after_none" ELSE "loop",
                      !.yielded[stream] = IF Head(fn.queue[stream]).typ = "RECORD"
                                          THEN @ + 1 ELSE @]
  /\ UNCHANGED statev

\* the loop test `producer.is_alive() or not _queue.empty()` fails
StreamLoopEnds(stream) ==
  /\ fn.op = "demux"
  /\ fn.consumer[stream] = "loop"
  /\ fn.queue[stream] = <<>>
  /\ fn.producer = "dead"
  /\ fn' = [fn EXCEPT !.consumer[stream] = "after_loop"]
  /\ UNCHANGED statev

\* if not producer.graceful_exit: raise RuntimeError("Singer tap exited unexpectedly.")
StreamCheck(stream) ==
  /\ fn.op = "demux"
  /\ fn.consumer[stream] \in {"after_none", "after_loop"}
  /\ fn' = [fn EXCEPT !.consumer[stream] = IF fn.graceful_exit THEN "ended" ELSE "raised",
                      !.got_none[stream] = fn.consumer[stream] = "after_none"]
  /\ UNCHANGED statev

\* ----------------------------------------------- AltoConfiguration.spec_for
\* layer + spec on two specs with plain values: the keys of both, the right one winning
BoxAdd(layer, spec) ==
  [k \in DOMAIN layer \cup DOMAIN spec |-> IF k \in DOMAIN spec THEN spec[k] ELSE layer[k]]

\* a call of spec_for(name): the frame looks the name up in the configuration
SpecForLookup ==
  /\ fn.op = "spec_for"
  /\ fn.at = "lookup"
  /\ LET name == fn.stack[Len(fn.stack)]
     IN IF name \notin DOMAIN fn.inner
        THEN fn' = [fn EXCEPT !.at = "raised", !.error = "ValueError", !.stack = <<>>]
        ELSE IF "inherit_from" \in DOMAIN fn.inner[name]
        THEN IF Len(fn.stack) < RecursionLimit
             THEN fn' = [fn EXCEPT !.stack = Append(@, fn.inner[name].inherit_from)]
             ELSE fn' = [fn EXCEPT !.at = "raised", !.error = "RecursionError", !.stack = <<>>]
        ELSE fn' = [fn EXCEPT !.at = "return", !.layer = fn.inner[name],
                              !.stack = SubSeq(@, 1, Len(@) - 1)]
  /\ UNCHANGED statev

\* the call of the frame below returns: spec = layer + spec; return spec
SpecForReturn ==
  /\ fn.op = "spec_for"
  /\ fn.at = "return"
  /\ IF fn.stack = <<>> THEN fn' = [fn EXCEPT !.at = "done"]
     ELSE fn' = [fn EXCEPT !.layer = BoxAdd(@, fn.inner[fn.stack[Len(fn.stack)]]),
                           !.stack = SubSeq(@, 1, Len(@) - 1)]
  /\ UNCHANGED statev

\* ---------------------------------------------------------------- utils.py
\* A JSON value is a dict of keys to JSON values or anything else (a number, a string,
\* a list, null), which merge treats alike.
RECURSIVE merge(_, _)
Leaf(v) == [t |-> "leaf", v |-> v]
Dict(m) == [t |-> "dict", m |-> m]

\* The body of merge's loop with the else branch of `isinstance(node, dict)` left out.
MergeKeyKeepNode(key, value, destination) ==
  IF value.t = "dict"
  THEN LET node == IF key \in DOMAIN destination THEN destination[key] ELSE Dict(<<>>)
       IN IF node.t = "dict" THEN Dict(merge(value.m, node.m)) ELSE node
  ELSE value

\* The value of destination[key] after the body of merge's loop for (key, value):
\* setdefault gives the present value or a new empty dict.
MergeKey(key, value, destination) ==
  IF value.t = "dict"
  THEN LET node == IF key \in DOMAIN destination THEN destination[key] ELSE Dict(<<>>)
       IN IF node.t = "dict" THEN Dict(merge(value.m, node.m)) ELSE value
  ELSE value

\* merge(source, destination): the destination after the loop over source.items(); the
\* keys of a dict are distinct, so each key of source is assigned once.
merge(source, destination) ==
  [key \in DOMAIN source \cup DOMAIN destination |->
     IF key \in DOMAIN source THEN MergeKey(key, source[key], destination)
     ELSE destination[key]]

Merge ==
  /\ fn.op = "merge"
  /\ fn.n = 0
  /\ fn' = [fn EXCEPT !.n = 1, !.out = merge(fn.source, fn.destination)]
  /\ UNCHANGED statev

\* ------------------------------------------------------- specifications
\* a batch as reservoir_ingestor writes it: the SCHEMA line, then RECORD lines
Batch(s, k, recs, sz) ==
  [lines |-> <<SchemaMsg(s, k)>> \o [i \in 1..Len(recs) |-> RecordMsg(s, recs[i])], size |-> sz]

\* the store after one ingest run with buffer_size 1 of a tap that printed a SCHEMA
\* and two RECORD lines of stream 1
SeededStore ==
  /\ files = [q \in {Path(1, 1, 1), Path(1, 1, 2)} |-> Batch(1, 1, <<q.ts>>, 5 * MiB)]
  /\ index = [exists |-> TRUE, ver |-> NoVer, keys |-> {1},
              paths |-> [s \in Streams |-> IF s = 1 THEN <<Path(1, 1, 1), Path(1, 1, 2)>>
                                           ELSE <<>>]]
  /\ tapped = {RecordMsg(1, 1), RecordMsg(1, 2)}
  /\ clock = 3

EmptyStore ==
  /\ files = NoFiles
  /\ index = EmptyIndex
  /\ tapped = {}
  /\ clock = 1

InitProcs ==
  /\ pc = [p \in Procs |-> "idle"]
  /\ raised = [p \in Procs |-> ""]
  /\ pending = [p \in Procs |-> {}]
  /\ reservoir = [p \in Procs |-> InMemory(EmptyIndex)]
  /\ changed = [p \in Procs |-> FALSE]
  /\ buffer_size = [p \in Procs |-> 0]
  /\ record_buffer = [p \in Procs |-> [s \in Streams |-> {}]]
  /\ active_schemas = [p \in Procs |-> [s \in Streams |-> 0]]
  /\ message = [p \in Procs |-> NoMsg]
  /\ stream_states = [p \in Procs |-> 0]
  /\ nread = [p \in Procs |-> 0]
  /\ emitter_states = [p \in Procs |-> EmptyState]
  /\ todo = [p \in Procs |-> {}]
  /\ work = [p \in Procs |-> <<>>]
  /\ job = [p \in Procs |-> {}]
  /\ fetched = [p \in Procs |-> {}]
  /\ writing = [p \in Procs |-> {}]
  /\ hist = <<>>
  /\ nruns = 0
  /\ held = {}
  /\ lock = NoLock
  /\ cmp = [files |-> NoFiles, index |-> EmptyIndex, caught |-> FALSE]
  /\ tap_state = 0
  /\ emit_state = EmptyState
  /\ target_stdin = <<>>

\* no process runs and no library function has been called
InitLocals == InitProcs /\ fn = [op |-> ""]

\* no task of the graph has run: a tap that supports state, no remote state object
InitRest == InitLocals /\ IdleTasks(TRUE, NoState)

\* the lines the tap may print next
TapLines(S, K) ==
  {SchemaMsg(s, k) : s \in S, k \in K}
    \cup {RecordMsg(s, Cardinality(tapped) + 1) : s \in S}
    \cup {StateMsg(Cardinality(tapped)), InvalidLine}

\* a new project: an empty store, no state files
Init == InitRest /\ EmptyStore

\* the outcomes of a PUT: stored with a size in bytes, or failed
PutOutcomes == {[ok |-> TRUE, size |-> sz] : sz \in BatchSizes} \cup {[ok |-> FALSE, size |-> 0]}

Ingest(p, maxLines, lines, outcomes) ==
  \/ IngestLockCheck(p)
  \/ IngestAcquire(p)
  \/ \E ok \in BOOLEAN : IngestPopen(p, ok)
  \/ nread[p] < maxLines /\ \E line \in lines : IngestLine(p, line)
  \/ IngestEOF(p)
  \/ IngestShutdown(p)
  \/ IngestFinallyIndex(p)
  \/ IngestUnlock(p)
  \/ \E put \in pending[p], o \in outcomes : PutComplete(p, put, o.ok, o.size)

Emit(p) ==
  \/ \E s \in Streams : EmitStream(p, s)
  \/ \E path \in job[p] : EmitFetch(p, path)
  \/ \E w \in fetched[p] : EmitLock(p, w)
  \/ \E w \in writing[p] : EmitWrite(p, w)
  \/ \E path \in job[p] : EmitFail(p, path)
  \/ \E w \in writing[p] : EmitWriteFail(p, w)
  \/ EmitPersist(p)
  \/ EmitClose(p)

Compact(p, maxFail) ==
  \/ CompactLockCheck(p)
  \/ CompactAcquire(p)
  \/ CompactLoad(p)
  \/ \E failAt \in 0..maxFail, mode \in {"pipe", "rm"} : CompactMerge(p, failAt, mode)
  \/ CompactRebuild(p)
  \/ CompactUnlock(p)

\* one process runs ingest, emit and compaction runs one after the other
Next ==
  \E p \in SeqProcs :
    \/ nruns < MaxRuns /\ \E bs \in BufferSizes : StartIngest(p, bs)
    \/ nruns < MaxRuns /\ EmitStart(p)
    \/ nruns < MaxRuns /\ StartCompact(p)
    \/ Ingest(p, MaxLines, TapLines(Streams, Schemas), PutOutcomes)
    \/ Emit(p)
    \/ Compact(p, MaxFailAt)

Spec == Init /\ [][Next]_vars

\* the lines of a tap with one stream and one schema
ConcLines == {SchemaMsg(1, 1), RecordMsg(1, Cardinality(tapped) + 1)}

InitConc == InitRest /\ (EmptyStore \/ SeededStore)

\* separate processes run ingest and compaction runs on the same env and tap
NextConc ==
  \E p \in Procs :
    \/ nruns < MaxConcRuns /\ StartIngest(p, 1)
    \/ nruns < MaxConcRuns /\ StartCompact(p)
    \/ Ingest(p, MaxConcLines, ConcLines, {[ok |-> TRUE, size |-> 5 * MiB]})
    \/ Compact(p, 0)

SpecConc == InitConc /\ [][NextConc]_vars

\* an ingestor run keeps running once it has started: the store answers, the tap
\* ends its output, the workers of the pool end their PUTs.  Nothing obliges a process
\* to start a run, nor a compactor run to go on.
Fair(p) ==
  /\ WF_vars(IngestLockCheck(p))
  /\ WF_vars(IngestAcquire(p))
  /\ WF_vars(\E ok \in BOOLEAN : IngestPopen(p, ok))
  /\ WF_vars(IngestEOF(p))
  /\ WF_vars(IngestShutdown(p))
  /\ WF_vars(IngestFinallyIndex(p))
  /\ WF_vars(IngestUnlock(p))
  /\ WF_vars(\E put \in pending[p] : PutComplete(p, put, TRUE, 5 * MiB))

FairConc == SpecConc /\ \A p \in Procs : Fair(p)

\* one process runs ingest, emit and compaction runs one after the other on a store
\* that may hold the batches of an earlier ingest
NextRuns ==
  \E p \in SeqProcs :
    \/ nruns < MaxSeqRuns /\ StartIngest(p, 1)
    \/ nruns < MaxSeqRuns /\ EmitStart(p)
    \/ nruns < MaxSeqRuns /\ StartCompact(p)
    \/ Ingest(p, MaxConcLines, ConcLines,
              {[ok |-> TRUE, size |-> 5 * MiB], [ok |-> FALSE, size |-> 0]})
    \/ Emit(p)
    \/ Compact(p, 0)

SpecRuns == InitConc /\ [][NextRuns]_vars

\* the paths a reservoir may hold when a compaction starts: MaxFiles batches of one
\* partition, one batch of a second schema and one of a second stream
CandidatePaths ==
  {Path(1, 1, t) : t \in 1..MaxFiles} \cup {Path(1, 2, MaxFiles + 1), Path(2, 1, MaxFiles + 2)}

\* the sizes in bytes of the objects of such a reservoir
StoredSizes == {5 * MiB, 13 * MiB, CompactThreshold, 30 * MiB}

\* the paths of S in the order reservoir_ingestor appended them
RECURSIVE ByTimestamp(_)
ByTimestamp(S) ==
  IF S = {} THEN <<>>
  ELSE LET m == CHOOSE x \in S : \A y \in S : x.ts <= y.ts
       IN <<m>> \o ByTimestamp(S \ {m})

\* a reservoir left by earlier runs: every listed path holds one batch of the size
\* `sizes` gives it, or nothing when its PUT failed (size 0); an index that was never
\* compacted lists the paths as they were appended, a compacted one as glob sorted them
InitCompact ==
  /\ InitRest
  /\ \E listed \in SUBSET CandidatePaths, ver \in {NoVer, 3} :
       \E sizes \in [listed -> StoredSizes \cup {0}] :
         /\ files = [q \in {x \in listed : sizes[x] # 0} |->
                       Batch(q.stream, q.schema, <<q.ts>>, sizes[q])]
         /\ index = [exists |-> TRUE, ver |-> ver, keys |-> {q.stream : q \in listed},
                     paths |-> [s \in Streams |->
                                  LET mine == {q \in listed : q.stream = s}
                                  IN IF ver = NoVer THEN ByTimestamp(mine) ELSE SortPaths(mine)]]
         /\ tapped = {RecordMsg(q.stream, q.ts) : q \in listed}
  /\ clock = MaxFiles + 3

\* one compactor run
NextCompact ==
  \E p \in SeqProcs :
    \/ nruns < 1 /\ StartCompact(p)
    \/ Compact(p, MaxFailAt)

SpecCompact == InitCompact /\ [][NextCompact]_vars

\* a project before `alto tap:target`: the tap supports state or not, the store holds
\* the state object of an earlier run or none
InitTasks ==
  /\ InitLocals
  /\ EmptyStore
  /\ \E supports_state \in BOOLEAN, state \in {NoState, StateOf({0})} :
       IdleTasks(supports_state, state)

\* doit runs the tasks in threads: any task whose dependencies have ended may go next
NextTasks ==
  \/ \E t \in Tasks : TaskSkip(t)
  \/ \E t \in Tasks : TaskStart(t)
  \/ \E t \in Tasks, ok \in BOOLEAN : TaskEnd(t, ok)
  \/ \E t \in Tasks : TaskCancel(t)
  \/ \E ok \in BOOLEAN : GetRemoteState(ok)
  \/ \E fails \in {"", "tap", "target"} : RunPipelinePopen(fails)
  \/ TargetPrintsState
  \/ \E code \in ExitCodes : TapExits(code)
  \/ \E code \in ExitCodes : TargetExits(code)
  \/ RunPipelineWait
  \/ \E ok \in BOOLEAN : UpdateRemoteState(ok)
  \/ \E ok \in BOOLEAN : UploadLogs(ok)

SpecTasks == InitTasks /\ [][NextTasks]_vars


\* the stream maps of a tap: the PII hasher, a custom map, or both
MapperLists == {<<"hash">>, <<"custom">>, <<"hash", "custom">>}

\* `alto tap:target` of a tap with stream maps, when every task the pipeline depends on
\* has ended and get_remote_state has returned; the tap has 1..MaxTapLines lines to print
InitMap ==
  /\ InitLocals
  /\ EmptyStore
  /\ task_status = [t \in Tasks |-> IF t = PipelineTask THEN "run" ELSE "done"]
  /\ started = Tasks
  /\ remote = [state |-> NoState, copies |-> 0, logs |-> {}]
  /\ \E mappers \in MapperLists, n \in 1..MaxTapLines :
       pl = [IdlePipeline(TRUE, NoState) EXCEPT !.at = "popen", !.mappers = mappers,
                                               !.tap_left = n]

\* run_pipeline with its map worker
NextMap ==
  \/ \E fails \in {"", "tap", "target"} : RunPipelinePopen(fails)
  \/ \E line \in NextTapLines(pl.printed) : TapPrints(line)
  \/ MapWorkerLine
  \/ MapWorkerRaises
  \/ MapWorkerEOF
  \/ \E code \in ExitCodes : TapExits(code)
  \/ \E code \in ExitCodes : TargetExits(code)
  \/ RunPipelineWait

SpecMap == InitMap /\ [][NextMap]_vars

\* the metadata entry of a property as a tap's discovery may give it
PropertyEntries(crumb) ==
  {Entry(crumb, sel, inc, FALSE) : sel \in {"false", "true"}, inc \in {"available", "automatic"}}

\* a stream with its root entry first, last or absent
StreamsOf(id, entries, roots) ==
  {[id |-> id, selected |-> FALSE, props |-> {entries[i].crumb : i \in 1..Len(entries)},
    metadata |-> IF r = "absent" THEN entries
                 ELSE IF r = "first" THEN <<Entry("", "false", "available", FALSE)>> \o entries
                 ELSE IF r = "default" THEN <<Entry("", "false", "available", TRUE)>> \o entries
                 ELSE entries \o <<Entry("", "false", "available", FALSE)>>] : r \in roots}

\* parsed catalogs of the streams orders(id, email) and users(id)
Catalogs ==
  LET orders == UNION {StreamsOf("orders", <<a, b>>, {"absent", "first", "last"}) :
                         a \in PropertyEntries("id"), b \in PropertyEntries("email")}
      users == UNION {StreamsOf("users", <<a>>, {"absent", "first", "default"}) :
                        a \in {Entry("id", "false", inc, FALSE) : inc \in {"available", "automatic"}}}
  IN {<<o, u>> : o \in orders, u \in users}

\* the selection strings over these streams and properties
Selections ==
  {Selection(prefix, stream, crumb) : prefix \in {"", "!", "~"},
                                      stream \in {"*", "orders", "users"},
                                      crumb \in {"*", "id", "email"}}

SelectionLists == UNION {[1..n -> Selections] : n \in 0..MaxSelections}

\* a call of apply_selected on a parsed catalog
InitSelect ==
  /\ InitProcs
  /\ EmptyStore
  /\ IdleTasks(TRUE, NoState)
  /\ \E catalog \in Catalogs, selections \in SelectionLists, strategy \in {"prune", "deselect"} :
       fn = [op |-> "apply_selected", catalog |-> catalog, selections |-> selections,
             strategy |-> strategy, n |-> 0, out |-> catalog, first |-> catalog]

SpecSelect == InitSelect /\ [][ApplySelected]_vars

Keys == {"a", "b"}
Leaves == {Leaf("1"), Leaf("[2]")}
DictsOver(values) ==
  UNION {[ks -> values] : ks \in SUBSET Keys}
RECURSIVE JsonDicts(_)
JsonDicts(depth) ==
  IF depth = 0 THEN {<<>>}
  ELSE DictsOver(Leaves \cup {Dict(m) : m \in JsonDicts(depth - 1)})

InitMerge ==
  /\ InitProcs
  /\ IdleTasks(TRUE, NoState)
  /\ EmptyStore
  /\ \E source \in JsonDicts(MaxDepth), destination \in JsonDicts(MaxDepth) :
       fn = [op |-> "merge", source |-> source, destination |-> destination,
             n |-> 0, out |-> destination]

SpecMerge == InitMerge /\ [][Merge]_vars

\* the lines of a tap with the streams users(id, email) and orders(id, email)
SchemaLine(stream, email) ==
  [type |-> "SCHEMA", stream |-> stream, properties |-> [id |-> SchemaString, email |-> email]]
RecordLine(stream, id, email) ==
  [type |-> "RECORD", stream |-> stream, record |-> [id |-> id, email |-> email]]
StateLine == [type |-> "STATE"]
EmailSchemas ==
  {SchemaString, SchemaNullable, SchemaArray(SchemaString),
   SchemaObject([email |-> SchemaString])}
EmailValues ==
  {Str("a@b"), Str("1"), Num("1"), None, List(<<Str("a@b"), Str("1")>>),
   Obj([email |-> Str("a@b")])}
Selects ==
  {<<Selection("", "*", "*"), Selection("~", "users", "email")>>,
   <<Selection("", "*", "*"), Selection("~", "*", "email")>>,
   <<Selection("", "*", "*")>>}

InitHash ==
  /\ InitProcs
  /\ IdleTasks(TRUE, NoState)
  /\ EmptyStore
  /\ \E select \in Selects, users \in EmailSchemas, orders \in {SchemaString, SchemaNullable},
        e1 \in EmailValues, e2 \in EmailValues, e3 \in {Str("a@b"), None} :
       fn = [op |-> "hash", select |-> select, n |-> 0, out |-> <<>>,
             lines |-> <<SchemaLine("users", users), RecordLine("users", Num("1"), e1),
                         RecordLine("users", Str("1"), e2), StateLine,
                         SchemaLine("orders", orders), RecordLine("orders", Str("a@b"), e3)>>]

SpecHash == InitHash /\ [][MapWorkerHash]_vars

\* the paths of a reservoir whose stream 1 changed its schema from 1 to 2 and back, in
\* the order reservoir_ingestor appended them
EmitPaths == {Path(1, 1, 1), Path(1, 2, 2), Path(1, 1, 3), Path(2, 1, 4)}

\* a reservoir after ingest runs, of which some objects may be gone from the store
InitEmit ==
  /\ InitRest
  /\ \E listed \in SUBSET EmitPaths : \E stored \in SUBSET listed :
       /\ files = [q \in stored |-> Batch(q.stream, q.schema, <<q.ts>>, 5 * MiB)]
       /\ index = [exists |-> TRUE, ver |-> NoVer, keys |-> {q.stream : q \in listed},
                   paths |-> [s \in Streams |-> ByTimestamp({q \in listed : q.stream = s})]]
       /\ tapped = {RecordMsg(q.stream, q.ts) : q \in listed}
  /\ clock = 5

\* emit runs only
NextEmit ==
  \E p \in SeqProcs :
    \/ nruns < MaxRuns /\ EmitStart(p)
    \/ Emit(p)

SpecEmit == InitEmit /\ [][NextEmit]_vars

\* a run of the tap -> reservoir task on a new project, followed by its teardown
NextIngest ==
  \E p \in SeqProcs :
    \/ /\ nruns < MaxIngestRuns /\ remote.copies = IngestRuns
       /\ \E bs \in BufferSizes : StartIngest(p, bs)
    \/ Ingest(p, MaxIngestLines, TapLines(Streams, Schemas), {[ok |-> TRUE, size |-> 5 * MiB]})
    \/ UpdateRemoteStateNoStdout(p)

SpecIngest == Init /\ [][NextIngest]_vars

\* configurations of three plugins: each may inherit from one of them or from a name
\* the configuration does not have, and sets some of the keys x and y to its own value
PluginNames == {"a", "b", "c"}
PluginSpecs(name) ==
  {[k \in ks |-> IF k = "inherit_from" THEN parent ELSE name] :
     ks \in {s \in SUBSET {"inherit_from", "x", "y"} : TRUE},
     parent \in PluginNames \cup {"ghost"}}

InitSpecFor ==
  /\ InitProcs
  /\ IdleTasks(TRUE, NoState)
  /\ EmptyStore
  /\ \E a \in PluginSpecs("a"), b \in PluginSpecs("b"), c \in PluginSpecs("c") :
       fn = [op |-> "spec_for", inner |-> [a |-> a, b |-> b, c |-> c], name |-> "a",
             stack |-> <<"a">>, at |-> "lookup", layer |-> <<>>, error |-> ""]

NextSpecFor == SpecForLookup \/ SpecForReturn

SpecSpecFor == InitSpecFor /\ [][NextSpecFor]_vars

\* select rules of a configuration and of the overrides made at run time
SelectRules ==
  {Selection("", "*", "*"), Selection("", "users", "*"), Selection("!", "users", "name"),
   Selection("~", "users", "email"), Selection("~", "*", "phone")}
ConfiguredSelects == {None} \cup {Some(s) : s \in UNION {[1..n -> SelectRules] : n \in 1..2}}
OverrideValues == UNION {[1..n -> SelectRules] : n \in 0..1}

InitOverride ==
  /\ InitProcs
  /\ IdleTasks(TRUE, NoState)
  /\ EmptyStore
  /\ \E spec_select \in ConfiguredSelects, type \in {"tap", "target"} :
       fn = [op |-> "select", type |-> type, spec_select |-> spec_select, _select |-> None,
             _retain_hash_rules |-> TRUE, n |-> 0, calls |-> 0, value |-> <<>>,
             mappers |-> <<>>]

NextOverride == (\E value \in OverrideValues : SelectSetter(value)) \/ GetStreamMaps

SpecOverride == InitOverride /\ [][NextOverride]_vars

\* the plugin's binary and base catalog, locally and in the remote cache, before the
\* productions: absent or left by an earlier version of the plugin
Artifacts == {"pex", "catalog"}
InitProduce ==
  /\ InitProcs
  /\ IdleTasks(TRUE, NoState)
  /\ EmptyStore
  /\ \E on_disk \in [Artifacts -> {"absent", "stale"}], cached \in [Artifacts -> {"absent", "stale"}] :
       fn = [op |-> "produce", local |-> on_disk, remote |-> cached, at |-> "idle", what |-> "",
             code |-> NoCode, raised |-> "", n |-> 0]

NextProduce ==
  \/ \E returncode \in 0..MaxExitCode : GenerateCatalogDiscover(returncode)
  \/ \E code \in {NoCode} \cup 0..MaxExitCode, wrote \in BOOLEAN : BuildPexMain(code, wrote)
  \/ \E ok \in BOOLEAN : CachePut(ok)

SpecProduce == InitProduce /\ [][NextProduce]_vars

InitRender ==
  /\ InitProcs
  /\ IdleTasks(TRUE, NoState)
  /\ EmptyStore
  /\ fn = [op |-> "render", LOAD_PATH |-> "root", held |-> {},
           r |-> [r \in Renders |-> [pc |-> "start", before |-> "", original |-> "",
                                      rendered_under |-> ""]]]

NextRender ==
  \E r \in Renders :
    \/ RenderAcquire(r)
    \/ RenderRead(r)
    \/ RenderSet(r)
    \/ \E ok \in BOOLEAN : RenderWrite(r, ok)
    \/ RenderReset(r)

SpecRender == InitRender /\ [][NextRender]_vars

InitDemux ==
  /\ InitProcs
  /\ IdleTasks(TRUE, NoState)
  /\ EmptyStore
  /\ fn = [op |-> "demux", producer |-> "run", payloads |-> 0, signalled |-> 0,
           graceful_exit |-> FALSE, crashed |-> FALSE,
           queue |-> [s \in Range(DemuxStreams) |-> <<>>],
           consumer |-> [s \in Range(DemuxStreams) |-> "loop"],
           yielded |-> [s \in Range(DemuxStreams) |-> 0],
           got_none |-> [s \in Range(DemuxStreams) |-> FALSE]]

NextDemux ==
  \/ \E typ \in {"RECORD", "STATE", "SCHEMA"}, stream \in Range(DemuxStreams) :
       DemuxPayload(typ, stream)
  \/ DemuxTapEnds
  \/ DemuxRaises
  \/ DemuxPutNone
  \/ DemuxGracefulExit
  \/ DemuxThreadEnds
  \/ \E stream \in Range(DemuxStreams) :
       \/ StreamGet(stream)
       \/ StreamLoopEnds(stream)
       \/ StreamCheck(stream)

SpecDemux == InitDemux /\ [][NextDemux]_vars

\* ----------------------------------------------------------------- claims
Idle == \A p \in Procs : pc[p] = "idle"
RunsAre(kinds) ==
  /\ Len(hist) = Len(kinds)
  /\ \A i \in 1..Len(kinds) : hist[i].kind = kinds[i] /\ hist[i].ok
ValidTapOutput == InvalidLine \notin tapped
Delivered == RecordsOf(target_stdin)

\* C1: after an ingest run and then an emit run, with no compaction in between and a
\* tap that printed only SCHEMA, RECORD and STATE lines, the target has received every
\* RECORD line the tap printed exactly once and no other RECORD line.
C1_IngestThenEmitDeliversExactly ==
  (Idle /\ RunsAre(<<"ingest", "emit">>) /\ ValidTapOutput)
    => /\ \A r \in tapped : Count(target_stdin, r) = 1
       /\ Range(Delivered) \subseteq tapped

\* C2: at most one ingestor or compactor run is between writing `_reservoir.lock` and
\* deleting it at any time.
C2_OneLockHolder == Cardinality(held) <= 1

IngestPcs == {"ing_check", "ing_lock", "ing_popen", "ing_loop", "ing_shutdown", "ing_finally",
              "ing_unlock"}
Acquired == {"ing_popen", "ing_loop", "ing_shutdown", "ing_finally", "ing_unlock",
             "cmp_load", "cmp_merge", "cmp_rebuild", "cmp_unlock"}

\* C3: a run that finds `_reservoir.lock` at its check ends at once with the lock
\* error: it never starts the tap, no object is written or deleted, no PUT is
\* submitted, the stored index and the lock object stay as they are.  The set up
\* before the check changes nothing in the store either.
C3_LockedRunFailsFast ==
  [][\A p \in Procs :
       /\ (pc[p] \in {"ing_check", "cmp_check"} /\ lock # NoLock /\ pc'[p] # pc[p])
            => /\ pc'[p] = "idle"
               /\ hist' = Append(hist, [proc |-> p,
                                        kind |-> IF pc[p] = "ing_check" THEN "ingest"
                                                 ELSE "compact",
                                        ok |-> FALSE, err |-> "locked"])
               /\ files' = files /\ index' = index /\ lock' = lock
               /\ pending' = pending /\ held' = held
       /\ (pc[p] = "idle" /\ pc'[p] \in {"ing_check", "cmp_check"})
            => files' = files /\ index' = index /\ lock' = lock /\ pending' = pending
    ]_vars

\* a run has failed on the lock that another run holds
C3_Witness ==
  /\ lock # NoLock /\ held # {}
  /\ \E i \in 1..Len(hist) : hist[i].err = "locked" /\ hist[i].proc \notin held

C5_CompactorReleasesLock ==
  [][\A p \in Procs :
       (pc[p] \in {"cmp_load", "cmp_merge", "cmp_rebuild", "cmp_unlock"} /\ pc'[p] = "idle")
         => p \notin held'
    ]_vars

\* C6: while a PUT submitted by an ingestor run is in flight, the run still holds the lock.
C6_NoPutInFlightAfterUnlock == \A p \in Procs : pending[p] # {} => p \in held

\* C7: the __version__ of the stored index never decreases.
C7_VersionMonotone == [][VersionOf(index') >= VersionOf(index)]_vars

\* the run of the compactor that is at its end, or has just ended
AfterCompact == \E p \in SeqProcs : pc[p] = "cmp_unlock"
RanMerges == Plan(cmp.index, cmp.files, cmp.index.keys).merges
SamePartition(a, b) == a.stream = b.stream /\ a.schema = b.schema

\* the number of times line l is stored in the files of partition (s, k)
RECURSIVE Stored(_, _, _)
Stored(fs, S, l) ==
  IF S = {} THEN 0
  ELSE LET q == CHOOSE x \in S : TRUE
       IN Count(fs[q].lines, l) + Stored(fs, S \ {q}, l)
StoredIn(fs, s, k, l) == Stored(fs, {q \in DOMAIN fs : q.stream = s /\ q.schema = k}, l)

\* C8: a compactor run that changed a file, or in which the merge phase raised, has
\* stored an index whose __version__ is one more than before, however many merges it
\* made; any other run leaves the stored index, __version__ included, as it was.
C8_VersionBumpedOnceIffChanged ==
  AfterCompact =>
    IF files # cmp.files \/ cmp.caught
      THEN index.ver = VersionOf(cmp.index) + 1
      ELSE index = cmp.index

\* a run that made two merges or more has stored the next version
C8_Witness ==
  /\ AfterCompact
  /\ Len(RanMerges) >= 2 /\ ~cmp.caught
  /\ index.ver = VersionOf(cmp.index) + 1

\* the index and the objects of the example: a and b of 5 MiB, c of 30 MiB
ExampleIndex ==
  [exists |-> TRUE, ver |-> 3, keys |-> {1},
   paths |-> [s \in Streams |->
                IF s = 1 THEN <<Path(1, 1, 1), Path(1, 1, 2), Path(1, 1, 3)>> ELSE <<>>]]
ExampleFiles ==
  [q \in {Path(1, 1, 1), Path(1, 1, 2), Path(1, 1, 3)} |->
     Batch(1, 1, <<q.ts>>, IF q.ts = 3 THEN 30 * MiB ELSE 5 * MiB)]
ExampleResult ==
  /\ files = [q \in {Path(1, 1, 2), Path(1, 1, 3)} |->
               IF q.ts = 3 THEN ExampleFiles[q]
               ELSE [lines |-> ExampleFiles[Path(1, 1, 1)].lines \o ExampleFiles[q].lines,
                     size |-> 10 * MiB]]
  /\ index = [ExampleIndex EXCEPT !.ver = 4, !.paths[1] = <<Path(1, 1, 2), Path(1, 1, 3)>>]

\* C9: after a compactor run in which nothing raised, a file of the threshold size or
\* more is as it was; a file that is gone was below the threshold and its lines are in
\* a file of the same partition with a greater name that was below the threshold too;
\* a file that is still there holds its own lines and lines of files of its partition
\* with smaller names only.  On the example, a and b are merged into b, a is deleted,
\* c is as it was and the index has version 4 and lists b and c.
C9_MergeIntoGreatestBelowThreshold ==
  (AfterCompact /\ ~cmp.caught) =>
    /\ \A q \in DOMAIN cmp.files :
         /\ cmp.files[q].size >= CompactThreshold
              => (q \in DOMAIN files /\ files[q] = cmp.files[q])
         /\ q \notin DOMAIN files
              => \E g \in DOMAIN files \cap DOMAIN cmp.files :
                   /\ SamePartition(g, q) /\ PathLess(q, g)
                   /\ cmp.files[g].size < CompactThreshold
                   /\ \A l \in Range(cmp.files[q].lines) :
                        Count(files[g].lines, l) >= Count(cmp.files[q].lines, l)
    /\ \A g \in DOMAIN files :
         /\ g \in DOMAIN cmp.files
         /\ \A l \in Range(files[g].lines) :
              \E q \in DOMAIN cmp.files :
                /\ SamePartition(g, q) /\ (q = g \/ PathLess(q, g))
                /\ l \in Range(cmp.files[q].lines)
                /\ q # g => (q \notin DOMAIN files /\ cmp.files[g].size < CompactThreshold)
    /\ (cmp.index = ExampleIndex /\ cmp.files = ExampleFiles) => ExampleResult

\* the run on the example has ended
C9_Witness ==
  /\ AfterCompact /\ ~cmp.caught
  /\ cmp.index = ExampleIndex /\ cmp.files = ExampleFiles
  /\ ExampleResult

\* C10: after a compactor run in which nothing raised, every line is stored in the
\* files of every partition as many times as before the run.
C10_CompactionPreservesRecords ==
  (AfterCompact /\ ~cmp.caught) =>
    \A s \in Streams, k \in Schemas, r \in tapped :
      StoredIn(files, s, k, r) = StoredIn(cmp.files, s, k, r)

\* a run has merged three files into one and nothing raised
C10_Witness ==
  /\ AfterCompact /\ ~cmp.caught
  /\ \E a, b \in DOMAIN cmp.files \ DOMAIN files : a # b
  /\ \A r \in tapped : StoredIn(files, 1, 1, r) = StoredIn(cmp.files, 1, 1, r)

\* the last run that ended is an emit run that did not raise, and nothing runs
AfterEmit ==
  /\ Idle /\ hist # <<>>
  /\ hist[Len(hist)].kind = "emit" /\ hist[Len(hist)].ok

\* the file names of stream s the index lists
Listed(idx, s) == {q.ts : q \in Range(idx.paths[s])}

\* the emitter is loading a state whose __version__ differs from the index's
Reconciles(p) ==
  /\ pc[p] = "idle" /\ pc'[p] = "emit_loop"
  /\ index.exists
  /\ SetDefaultVersion(emit_state).ver # SetDefaultVersion(index).ver

\* C11: when the emitter loads a state whose __version__ differs from the index's, the
\* bookmark of every stream the state knows becomes the greatest file name of the index
\* that is not greater than the bookmark, or stays when there is none; the state gets
\* the version of the index and is persisted.
C11_ReconcileKeepsBookmarkBelow ==
  [][\A p \in SeqProcs :
       Reconciles(p) =>
         /\ emit_state'.ver = SetDefaultVersion(index).ver
         /\ \A s \in emit_state.known \cap index.keys :
              LET below == {f \in Listed(index, s) : f <= emit_state.emitted[s]}
              IN emit_state'.emitted[s] =
                   IF below = {} THEN emit_state.emitted[s] ELSE Max(below)
    ]_vars

IsMerged(f) == Cardinality({i \in 1..Len(f.lines) : f.lines[i].type = "SCHEMA"}) > 1

\* C12: after an emit run that did not raise, every record of a file that a compaction
\* merged and the index lists has been written to the target exactly once, over all
\* the emit runs so far.
C12_MergedGroupDeliveredOnce ==
  AfterEmit =>
    \A s \in index.keys : \A q \in Range(index.paths[s]) :
      (q \in DOMAIN files /\ IsMerged(files[q]))
        => \A r \in Range(RecordsOf(files[q].lines)) : Count(target_stdin, r) = 1

\* C13: after an emit run that did not raise, the persisted bookmark of every stream
\* of the index is the greatest file name the index lists for the stream.
C13_BookmarkIsGreatestListed ==
  AfterEmit =>
    \A s \in index.keys :
      Listed(index, s) # {}
        => (s \in emit_state.known /\ emit_state.emitted[s] = Max(Listed(index, s)))

\* an emit run that reconciled the versions after a compaction has ended, and the
\* index lists two files or more
C13_Witness ==
  /\ AfterEmit
  /\ emit_state.ver > 0
  /\ \E s \in index.keys : Cardinality(Listed(index, s)) >= 2

\* C14: at any time at most one batch is partly written to the target's stdin, and the
\* lines written last are the lines of that batch written so far.
C14_BatchWrittenContiguously ==
  \A p \in Procs :
    /\ Cardinality({w \in writing[p] : w.n > 0}) <= 1
    /\ \A w \in writing[p] :
         w.n > 0 =>
           /\ Len(target_stdin) >= w.n
           /\ SubSeq(target_stdin, Len(target_stdin) - w.n + 1, Len(target_stdin))
                = SubSeq(w.lines, 1, w.n)

\* a worker has written a part of its batch while another worker holds a batch of the
\* same partition and waits
C14_Witness ==
  \E p \in Procs : \E w \in writing[p] : \E v \in fetched[p] :
    /\ w.n > 0
    /\ v.path.stream = w.path.stream /\ v.path.schema = w.path.schema

\* a batch that begins with the SCHEMA line of its path and holds RECORD lines of its
\* stream after it
WellFormedBatch(path, lines) ==
  /\ lines # <<>>
  /\ lines[1] = SchemaMsg(path.stream, path.schema)
  /\ \A i \in 2..Len(lines) : lines[i].type = "RECORD" /\ lines[i].stream = path.stream

\* C15: every batch the ingestor submits to the store begins with the SCHEMA line of
\* its stream and schema and holds only RECORD lines after it.
C15_BatchIsHeaderThenRecords ==
  \A p \in Procs : \A put \in pending[p] : WellFormedBatch(put.path, put.lines)

\* C16: the iteration of the ingestor's loop that reads a line that is not JSON changes
\* no record buffer, no record count, no stream state, no index entry and submits no
\* batch, and the run stays in the loop.
C16_InvalidLineDropped ==
  [][\A p \in Procs :
       IngestLine(p, InvalidLine) =>
         /\ pc'[p] = "ing_loop" /\ raised'[p] = ""
         /\ record_buffer' = record_buffer /\ active_schemas' = active_schemas
         /\ stream_states' = stream_states /\ tap_state' = tap_state
         /\ reservoir' = reservoir /\ pending' = pending
    ]_vars

\* the pipeline task and its teardown have ended
PipelineEnded == PipelineTask \in started /\ pl.at = "end"

\* C17: when a tap->target run fails because the tap or the target exited non-zero,
\* the pipeline task fails, the tap and target logs are still uploaded, and the remote
\* state object is what it was before the run.  Stated of the runs in which the store
\* took every upload of the teardown.
C17_FailedRunLeavesRemoteState ==
  (PipelineEnded /\ pl.error.type = "CalledProcessError" /\ pl.teardown_error = NoError)
    => /\ task_status[PipelineTask] = "fail"
       /\ {"tap", "target"} \subseteq remote.logs
       /\ remote.state = pl.before

\* C18: run_pipeline ends only when the tap and the target have both exited; it raises
\* iff an exit code is non-zero; the error carries the exit code and the command of the
\* process that failed, the tap's when the tap failed and the target's when only the
\* target did; when both exit 0 the task completes.
C18_RaisesWithFailingCommand ==
  [][(pl.at = "streaming" /\ pl'.at = "finished") =>
       /\ pl.tap_code # NoCode /\ pl.target_code # NoCode
       /\ (pl'.error # NoError) <=> (pl.tap_code # 0 \/ pl.target_code # 0)
       /\ pl.tap_code # 0 => pl'.error = CalledProcessError(pl.tap_code, TapCmd)
       /\ (pl.tap_code = 0 /\ pl.target_code # 0)
            => pl'.error = CalledProcessError(pl.target_code, TargetCmd)
       /\ (pl.tap_code = 0 /\ pl.target_code = 0) => task_status'[PipelineTask] = "done"]_vars

\* C19: a pipeline task that started ends with upload_logs attempted, whichever stage
\* failed, the state teardown included.
C19_LogUploadAlwaysAttempted == PipelineEnded => pl.upload_attempted

\* the tasks the claim C20 names before task t
Before(t) ==
  CASE t = PipelineTask -> {"build:tap", "build:target", "catalog:tap", "apply:tap",
                            "config:tap", "config:target--tap"}
    [] t = "apply:tap" -> {"catalog:tap"}
    [] t = "catalog:tap" -> {"build:tap"}
    [] t = "build:tap" -> {"build:tap-base"}
    [] OTHER -> {}

\* C20: in any parallel schedule, the actions of the pipeline task start only after
\* build:tap, build:target, catalog:tap and apply:tap have completed and its config
\* tasks have run; apply completes after catalog, catalog after build, and the tap that
\* inherits is built only after the build of its parent.
C20_DependenciesCompleteFirst ==
  /\ \A t \in Tasks : (t \in started \/ task_status[t] = "done")
       => \A d \in Before(t) : task_status[d] = "done"
  /\ PipelineTask \in started => ConfigTasks \subseteq started

\* the pipeline task started in a run where no task was up to date
C20_Witness ==
  /\ PipelineTask \in started
  /\ started = Tasks

Passed(lines) == SelectSeq(lines, LAMBDA l : l.type \notin {"", "INVALID"})

Hung ==
  /\ pl.at = "streaming"
  /\ pl.map_thread = "raised"
  /\ pl.tap_left > 0
  /\ Len(pl.tap_stdout) = PipeCapacity

\* C22: when the map worker fails while a pipeline runs, run_pipeline terminates and the
\* pipeline task fails with an error: it neither hangs nor reports success.
C22_MapWorkerFailureFailsTask ==
  pl.map_thread = "raised" =>
    /\ ~Hung
    /\ pl.at = "finished" => (task_status[PipelineTask] = "fail" /\ pl.error # NoError)

\* apply_selected has been applied once to fn.catalog
Applied(strategy) == fn.op = "apply_selected" /\ fn.n = 1 /\ fn.strategy = strategy

\* the stream has, after Pass-1, an entry whose selection propagates
Propagates(stream) ==
  LET metadata == Pass1(stream, Patterns(fn.selections)).metadata
  IN \E j \in 1..Len(metadata) :
       \/ metadata[j].selected = "true"
       \/ metadata[j].selected = "none" /\ metadata[j].by_default

\* the stream of catalog with this id
StreamOf(catalog, id) == catalog[CHOOSE i \in 1..Len(catalog) : catalog[i].id = id]
Ids(catalog) == {catalog[i].id : i \in 1..Len(catalog)}
Crumbs(metadata) == {metadata[j].crumb : j \in 1..Len(metadata)}

\* streams orders(id, email) and users(id), nothing selected, patterns ["orders.id"]
ExampleCatalog ==
  <<[id |-> "orders", selected |-> FALSE, props |-> {"id", "email"},
     metadata |-> <<Entry("", "false", "available", FALSE), Entry("id", "false", "available", FALSE),
                    Entry("email", "false", "available", FALSE)>>],
    [id |-> "users", selected |-> FALSE, props |-> {"id"},
     metadata |-> <<Entry("", "false", "available", FALSE),
                    Entry("id", "false", "available", FALSE)>>]>>
ExampleSelections == <<Selection("", "orders", "id")>>
ExamplePruned ==
  <<[id |-> "orders", selected |-> TRUE, props |-> {"id"},
     metadata |-> <<Entry("", "true", "available", FALSE),
                    Entry("id", "true", "available", FALSE)>>]>>

\* C25: after apply_selected with PRUNE, the streams left are those with an entry whose
\* selection propagates; each has a root entry with selected true, no unselected entry,
\* and no schema property whose entry was removed.  For orders(id, email), users(id) and
\* ["orders.id"]: users and orders.email are removed, the root of orders is selected.
C25_PruneKeepsSelected ==
  Applied("prune") =>
    /\ Ids(fn.out) = {fn.catalog[i].id : i \in {k \in 1..Len(fn.catalog) : Propagates(fn.catalog[k])}}
    /\ \A i \in 1..Len(fn.out) :
         LET s == fn.out[i]
             c == StreamOf(fn.catalog, s.id)
         IN /\ \E j \in 1..Len(s.metadata) :
                 s.metadata[j].crumb = "" /\ s.metadata[j].selected = "true"
            /\ \A j \in 1..Len(s.metadata) : s.metadata[j].selected = "true"
            /\ s.selected
            /\ s.props = c.props \ (Crumbs(c.metadata) \ Crumbs(s.metadata))
    /\ (fn.catalog = ExampleCatalog /\ fn.selections = ExampleSelections)
         => fn.out = ExamplePruned

\* the example has been pruned
C25_Witness ==
  /\ Applied("prune")
  /\ fn.catalog = ExampleCatalog /\ fn.selections = ExampleSelections
  /\ Len(fn.out) = 1

\* C26: when every selection that does not start with "~" starts with "!", apply_selected
\* gives what it gives with "*.*" put first, also when the list holds "~" selections.
C26_ImplicitStarBesideHashRules ==
  (fn.op = "apply_selected" /\ fn.n = 1
     /\ \A i \in 1..Len(fn.selections) :
          fn.selections[i].prefix # "~" => fn.selections[i].prefix = "!")
    => fn.out = apply_selected(fn.catalog, <<Selection("", "*", "*")>> \o fn.selections,
                               fn.strategy)

\* C27: an entry with inclusion automatic that no pattern selected is left with selected
\* true wherever it stands in the list, and with its schema property; a stream with no
\* entry that propagates is not selected.
C27_AutomaticAlwaysKept ==
  (fn.op = "apply_selected" /\ fn.n = 1) =>
    /\ \A i \in 1..Len(fn.out) :
         LET s == fn.out[i]
             c == Pass1(StreamOf(fn.catalog, s.id), Patterns(fn.selections))
         IN \A j \in 1..Len(c.metadata) :
              (c.metadata[j].inclusion = "automatic" /\ c.metadata[j].selected # "true")
                => /\ \E k \in 1..Len(s.metadata) :
                        /\ s.metadata[k].crumb = c.metadata[j].crumb
                        /\ s.metadata[k].selected = "true"
                   /\ c.metadata[j].crumb \in s.props
    /\ \A i \in 1..Len(fn.out) :
         fn.out[i].selected => Propagates(StreamOf(fn.catalog, fn.out[i].id))

\* C28: a second application of apply_selected with the same patterns changes nothing,
\* under PRUNE and under DESELECT.
C28_ApplyTwiceIsApplyOnce ==
  (fn.op = "apply_selected" /\ fn.n = 2) => fn.out = fn.first

\* the entry with its selected flag left out
Unflagged(entry) == [entry EXCEPT !.selected = "any"]

\* C29: under DESELECT no stream, no metadata entry and no schema property is removed:
\* apart from a root entry appended to a stream that had none, only selected flags differ.
C29_DeselectTogglesFlagsOnly ==
  Applied("deselect") =>
    /\ Len(fn.out) = Len(fn.catalog)
    /\ \A i \in 1..Len(fn.catalog) :
         LET s == fn.out[i]
             c == fn.catalog[i]
             n == Len(c.metadata)
         IN /\ s.id = c.id /\ s.props = c.props
            /\ Len(s.metadata) = n + (IF RootIx(c.metadata) = 0 THEN 1 ELSE 0)
            /\ \A j \in 1..n : Unflagged(s.metadata[j]) = Unflagged(c.metadata[j])
            /\ Len(s.metadata) > n => Unflagged(s.metadata[n + 1]) = Unflagged(NewRoot)

\* a DESELECT run left one stream deselected and, in a selected stream, an entry
\* deselected
C29_Witness ==
  /\ Applied("deselect")
  /\ \E i, k \in 1..Len(fn.out) :
       /\ ~fn.out[i].selected
       /\ fn.out[k].selected
       /\ \E j \in 1..Len(fn.out[k].metadata) : fn.out[k].metadata[j].selected = "false"

\* what C30 says of one level of a merge and, recursively, of the dicts met on both sides
RECURSIVE MergedAs(_, _, _)
MergedAs(out, source, destination) ==
  /\ DOMAIN out = DOMAIN source \cup DOMAIN destination
  /\ \A k \in DOMAIN destination \ DOMAIN source : out[k] = destination[k]
  /\ \A k \in DOMAIN source :
       IF source[k].t = "dict" /\ k \in DOMAIN destination /\ destination[k].t = "dict"
       THEN out[k].t = "dict" /\ MergedAs(out[k].m, source[k].m, destination[k].m)
       ELSE out[k] = source[k]

\* C30: after merge(source, destination), for every key of source whose value and whose
\* destination value are both dicts the value is their recursive merge, every other key of
\* source holds the source's value, and every key only in destination is unchanged; so
\* merging into {} gives the source and merging {} changes nothing.
C30_MergeIsRightBiased ==
  (fn.op = "merge" /\ fn.n = 1) =>
    /\ MergedAs(fn.out, fn.source, fn.destination)
    /\ \A k \in DOMAIN fn.source : fn.source[k].t # "dict" => fn.out[k] = fn.source[k]
    /\ fn.destination = <<>> => fn.out = fn.source
    /\ fn.source = <<>> => fn.out = fn.destination

\* a merge that recursed into one key, replaced a leaf by a dict and kept a nested key
\* of the destination
C30_Witness ==
  /\ fn.op = "merge" /\ fn.n = 1
  /\ fn.source = [a |-> Dict([a |-> Leaf("1")]), b |-> Dict([b |-> Leaf("[2]")])]
  /\ fn.destination = [a |-> Dict([a |-> Leaf("[2]"), b |-> Dict(<<>>)]), b |-> Leaf("1")]
  /\ fn.out = [a |-> Dict([a |-> Leaf("1"), b |-> Dict(<<>>)]), b |-> Dict([b |-> Leaf("[2]")])]

PiiSelect == <<Selection("", "*", "*"), Selection("~", "users", "email")>>
LeafSchema(node) == node.type \notin {"object", "array"}
LeafValue(value) == value.t \notin {"list", "dict"}

StoredIndex == IF index.exists THEN index ELSE InMemory(EmptyIndex)
IngestHolds(p) == pc[p] \in {"ing_popen", "ing_loop", "ing_shutdown", "ing_finally"}
IsPrefix(a, b) == Len(a) <= Len(b) /\ \A i \in 1..Len(a) : a[i] = b[i]

\* C35: the index an ingestor uploads at cleanup extends the index stored when it wrote
\* the lock: at that moment the index it holds is the stored one, until cleanup it only
\* appends the paths of the batches it submits and keeps __version__, and cleanup
\* uploads what it holds.
C35_UploadExtendsLockedIndex ==
  [][\A p \in Procs :
       /\ (pc[p] = "ing_lock" /\ pc'[p] = "ing_popen") => reservoir'[p] = StoredIndex'
       /\ (IngestHolds(p) /\ pc'[p] # "idle") =>
            /\ reservoir'[p].ver = reservoir[p].ver
            /\ \A s \in Streams :
                 /\ IsPrefix(reservoir[p].paths[s], reservoir'[p].paths[s])
                 /\ \A i \in (Len(reservoir[p].paths[s]) + 1)..Len(reservoir'[p].paths[s]) :
                      \E put \in pending'[p] \ pending[p] : put.path = reservoir'[p].paths[s][i]
       /\ (pc[p] = "ing_finally" /\ pc'[p] = "ing_unlock") => index' = reservoir[p]]_vars

\* the part of C35 that follows the lock: what the run does to the index it holds
AfterLockOnlyAppends ==
  [][\A p \in Procs :
       /\ (IngestHolds(p) /\ pc'[p] # "idle") =>
            /\ reservoir'[p].ver = reservoir[p].ver
            /\ \A s \in Streams :
                 /\ IsPrefix(reservoir[p].paths[s], reservoir'[p].paths[s])
                 /\ \A i \in (Len(reservoir[p].paths[s]) + 1)..Len(reservoir'[p].paths[s]) :
                      \E put \in pending'[p] \ pending[p] : put.path = reservoir'[p].paths[s][i]
       /\ (pc[p] = "ing_finally" /\ pc'[p] = "ing_unlock") => index' = reservoir[p]]_vars

\* the batches a step of p submits to the pool, and the containers of p that hold records
Submitted(p) == pending'[p] \ pending[p]
Buffered(p) == {sc \in Streams \X UNION {record_buffer[p][s] : s \in Streams} :
                  sc[2] \in record_buffer[p][sc[1]] /\ sc[2].count > 0}
AppendedPaths(p, s) ==
  IF IsPrefix(reservoir[p].paths[s], reservoir'[p].paths[s])
  THEN SubSeq(reservoir'[p].paths[s], Len(reservoir[p].paths[s]) + 1, Len(reservoir'[p].paths[s]))
  ELSE <<InvalidLine>>

\* what C37 says of the step of the ingestor p for one line of the tap
LineKeepsBuffers(p) ==
  /\ \A s \in Streams : \A c \in record_buffer'[p][s] : c.count < buffer_size[p]
  /\ Cardinality(Submitted(p)) <= 1
  /\ \A s \in Streams :
       AppendedPaths(p, s) = SortPaths({put.path : put \in {q \in Submitted(p) : q.path.stream = s}})
  /\ \A put \in Submitted(p) :
       /\ Len(RecordsOf(put.lines)) = buffer_size[p]
       /\ Len(put.lines) = buffer_size[p] + 1
       /\ put.lines[1] = SchemaMsg(put.path.stream, put.path.schema)
       /\ \A i \in 2..Len(put.lines) : put.lines[i].stream = put.path.stream

\* what C37 says of the step of the ingestor p at the end of the tap's output
EofFlushesBuffers(p) ==
  /\ Cardinality(Submitted(p)) = Cardinality(Buffered(p))
  /\ \A sc \in Buffered(p) :
       \E put \in Submitted(p) :
         /\ put.path.stream = sc[1] /\ put.path.schema = sc[2].schema_id
         /\ put.lines = sc[2].records
         /\ put.lines[1] = SchemaMsg(sc[1], sc[2].schema_id)
  /\ \A s \in Streams :
       /\ IsPrefix(reservoir[p].paths[s], reservoir'[p].paths[s])
       /\ Range(AppendedPaths(p, s)) = {put.path : put \in {q \in Submitted(p) : q.path.stream = s}}
       /\ Len(AppendedPaths(p, s)) = Cardinality({sc \in Buffered(p) : sc[1] = s})

\* C37: after each message every buffer holds fewer than buffer_size records; a batch
\* flushed before the end of the tap's output holds exactly buffer_size records of its
\* stream after the SCHEMA line they were buffered for; at the end each buffer with
\* records is flushed once and an empty one gives no file; each flush appends one path
\* to the index list of its stream, under that schema id.
C37_BuffersFlushAtBufferSize ==
  [][\A p \in Procs :
       /\ (pc[p] = "ing_loop" /\ pc'[p] \in {"ing_loop", "ing_finally"}
             /\ nread'[p] = nread[p] + 1) => LineKeepsBuffers(p)
       /\ (pc[p] = "ing_loop" /\ pc'[p] = "ing_shutdown") => EofFlushesBuffers(p)]_vars

\* every line of the batch at path q has been written to the target's stdin
WrittenToTarget(q) == \A i \in 1..Len(files[q].lines) : files[q].lines[i] \in Range(target_stdin)

\* C34: whenever the emitter's state is persisted, every file the index lists for a
\* stream with a name not greater than the stream's persisted bookmark has been written
\* to the target, so a later run, which takes the files after the bookmark, skips none
\* that was not delivered.
C34_BookmarkBehindDelivery ==
  \A s \in emit_state.known \cap index.keys :
    \A q \in Range(index.paths[s]) :
      (q \in DOMAIN files /\ q.ts <= emit_state.emitted[s]) => WrittenToTarget(q)

\* the teardown of the last run has uploaded the state, the last run is an ingest run
\* that raised, and no PUT of it is still in flight
AfterFailedIngest ==
  /\ Idle /\ hist # <<>>
  /\ hist[Len(hist)].kind = "ingest" /\ ~hist[Len(hist)].ok
  /\ remote.copies = IngestRuns
  /\ \A p \in Procs : pending[p] = {}

\* some batch of the store holds the line
InReservoir(line) == \E q \in DOMAIN files : line \in Range(files[q].lines)

\* C36: after an ingest run that raised and its teardown, every RECORD line the tap
\* printed before the STATE message the uploaded state comes from is in a batch of the
\* reservoir (a STATE value is the number of lines printed before it).
C36_UploadedStateBehindReservoir ==
  AfterFailedIngest =>
    \A line \in tapped :
      (line.type = "RECORD" /\ line.rec <= remote.state) => InReservoir(line)

\* the names reached from name along inherit_from, name included (at most n links)
RECURSIVE Lineage(_, _, _)
Lineage(inner, name, n) ==
  IF n = 0 \/ name \notin DOMAIN inner \/ "inherit_from" \notin DOMAIN inner[name]
  THEN <<name>>
  ELSE <<name>> \o Lineage(inner, inner[name].inherit_from, n - 1)

InheritanceCycle(inner, name) ==
  LET line == Lineage(inner, name, Cardinality(DOMAIN inner))
  IN \E i, j \in 1..Len(line) : i < j /\ line[i] = line[j]

\* the parent's resolved spec overlaid by the plugin's own spec, own keys winning
RECURSIVE ParentOverOwn(_, _)
ParentOverOwn(inner, name) ==
  IF "inherit_from" \notin DOMAIN inner[name] THEN inner[name]
  ELSE LET parent == ParentOverOwn(inner, inner[name].inherit_from)
       IN [k \in DOMAIN parent \cup DOMAIN inner[name] |->
             IF k \in DOMAIN inner[name] THEN inner[name][k] ELSE parent[k]]

\* C31 (acyclic part): the spec resolved along an acyclic chain of known plugins is
\* the parent's spec overlaid by the own spec, own keys winning
AcyclicChainOverlays ==
  (fn.op = "spec_for" /\ fn.at = "done") => fn.layer = ParentOverOwn(fn.inner, fn.name)

AcyclicChainResolved ==
  /\ fn.op = "spec_for"
  /\ fn.at = "done"
  /\ Len(Lineage(fn.inner, fn.name, 3)) = 3
  /\ {"x", "y", "inherit_from"} \subseteq DOMAIN fn.layer
  /\ fn.layer.x = "b"
  /\ fn.layer.y = "c"
  /\ fn.layer.inherit_from = "b"

\* C31: inherit_from links that form a cycle (a plugin inheriting from itself
\* included) are rejected with a configuration error and resolution never enters a
\* plugin it is already resolving; an acyclic chain resolves to the parent's spec
\* overlaid by the own spec, own keys winning
C31_CyclesRejected ==
  fn.op = "spec_for" =>
    /\ \A i, j \in 1..Len(fn.stack) : i < j => fn.stack[i] # fn.stack[j]
    /\ fn.error # "RecursionError"
    /\ (InheritanceCycle(fn.inner, fn.name) /\ fn.at # "lookup") =>
         fn.at = "raised" /\ fn.error = "ValueError"
    /\ AcyclicChainOverlays

ConfiguredHashRules == hash_rules(ConfiguredSelect(fn.spec_select))
Overridden == fn.op = "select" /\ fn.n > 0
IsHashMap(m) == m # <<>> /\ m[1].map = "HashStreamMap"

\* C39: after every runtime override of select, each ~ rule of the configured select
\* list is in the effective select list, so get_stream_maps of the tap returns the
\* hash map with those rules; an empty override gives ["*.*"] followed by the ~ rules
\* of the list it replaces
C39_HashRulesSurviveOverrides ==
  [][(fn.op = "select" /\ fn'.n > 0) =>
       /\ fn'._select # None
       /\ Range(ConfiguredHashRules) \subseteq Range(fn'._select.v)
       /\ (fn'.calls > fn.calls /\ fn.type = "tap" /\ ConfiguredHashRules # <<>>) =>
            /\ IsHashMap(fn'.mappers)
            /\ Range(ConfiguredHashRules) \subseteq Range(fn'.mappers[1].select)
       /\ (fn'.n > fn.n /\ fn'.value = <<>>) =>
            fn'._select.v = <<Selection("", "*", "*")>> \o hash_rules(SelectGetter(fn))]_vars

\* a tap configured with a ~ rule, overridden twice (once with the empty list), returns
\* the hash map
C39_Witness ==
  /\ Overridden
  /\ fn.n = 2
  /\ fn.value = <<>>
  /\ fn.type = "tap"
  /\ fn.spec_select # None
  /\ Selection("~", "users", "email") \in Range(fn.spec_select.v)
  /\ fn.calls > 0
  /\ IsHashMap(fn.mappers)
  /\ fn._select.v[1] = Selection("", "*", "*")

ProductionFailed == fn.op = "produce" /\ fn.raised \in {"CalledProcessError", "SystemExit"}

\* C32: a production that exits non-zero (the tap's --discover, or the pex build)
\* leaves no local artifact, uploads nothing to the remote cache and raises; a
\* production that ends without error leaves the artifact locally and in the remote
\* cache
C32_FailedProductionLeavesNothing ==
  [][fn.op = "produce" =>
       /\ (fn'.n > fn.n /\ fn'.code \notin {NoCode, 0}) =>
            /\ fn'.raised \in {"CalledProcessError", "SystemExit"}
            /\ fn'.local[fn'.what] = "absent"
            /\ fn'.remote = fn.remote
            /\ fn'.at = "idle"
       /\ (fn'.n > fn.n /\ fn'.code \in {NoCode, 0}) => fn'.at = "put" /\ fn'.raised = ""
       /\ (fn.at = "put" /\ fn'.at = "idle" /\ fn'.raised = "") =>
            /\ fn'.local[fn.what] = "built"
            /\ fn'.remote[fn.what] = "built"]_vars

\* a binary was built and uploaded, then the discovery failed over a stale catalog
C32_Witness ==
  /\ ProductionFailed
  /\ fn.what = "catalog"
  /\ fn.local = [pex |-> "built", catalog |-> "absent"]
  /\ fn.remote = [pex |-> "built", catalog |-> "stale"]

\* C33: while a render writes its config the LOAD_PATH slot holds the render's own
\* namespace, and when a render ends, with or without error, the slot holds the value
\* it had when the render started
C33_LoadPathAtomic ==
  [][fn.op = "render" =>
       \A r \in Renders :
         /\ (fn'.r[r].pc = "write" /\ NamespaceOverride(r) # "") =>
              fn'.LOAD_PATH = NamespaceOverride(r)
         /\ (fn.r[r].pc \notin {"done", "failed"} /\ fn'.r[r].pc \in {"done", "failed"}) =>
              fn'.LOAD_PATH = fn.r[r].before]_vars

\* C33 for renders that all hold the same lock and do not fail
RendersUnderOneLock ==
  [][(fn.op = "render" /\ fn.r["runner"].pc = "start" /\ fn'.r["runner"].pc = "start"
        /\ \A r \in Renders : fn'.r[r].pc # "failed") =>
       \A r \in Renders :
         /\ (fn'.r[r].pc = "write" /\ NamespaceOverride(r) # "") =>
              fn'.LOAD_PATH = NamespaceOverride(r)
         /\ (fn.r[r].pc # "done" /\ fn'.r[r].pc = "done") => fn'.LOAD_PATH = fn.r[r].before]_vars

\* every render has ended and the slot does not hold what it held before them
SlotLeftChanged ==
  /\ fn.op = "render"
  /\ \A r \in Renders : fn.r[r].pc \in {"done", "failed"}
  /\ fn.LOAD_PATH # "root"

\* C38: when the tap finishes normally no stream consumer raises: a consumer that took
\* the end-of-stream marker from its queue finds graceful_exit set
C38_ConsumersEndGracefully ==
  (fn.op = "demux" /\ ~fn.crashed) =>
    \A s \in Range(DemuxStreams) :
      /\ fn.consumer[s] # "raised"
      /\ fn.consumer[s] = "after_none" => fn.graceful_exit

\* a consumer whose loop ended because the thread was gone and the queue empty
EndedWithoutMarker ==
  /\ fn.op = "demux"
  /\ \E s \in Range(DemuxStreams) : fn.consumer[s] \in {"ended", "raised"} /\ ~fn.got_none[s]

\* after a normal end of the tap, every consumer that raised had taken the marker
\* before the flag was set
OnlyMarkerRaceRaises ==
  (fn.op = "demux" /\ ~fn.crashed) =>
    \A s \in Range(DemuxStreams) : fn.consumer[s] = "raised" => fn.got_none[s]

====
